---- MODULE Spec2Model ----
(***************************************************************************)
(* Model of aa_hotel_optimizer/main.py: the status-bonus calculator, the   *)
(* four selection strategies and the search orchestrator                   *)
(* find_best_hotel_deals.                                                  *)
(*                                                                         *)
(* Representation:                                                         *)
(*  - a stay is a record with the keys of the dict built by                *)
(*    analyze_hotel_data; prices are whole dollars (Python floats in the   *)
(*    source), points_per_dollar is kept as the pair <<numerator,          *)
(*    denominator>> of the quotient the source computes;                   *)
(*  - a calendar date is the number of days since 01/01/2025; the          *)
(*    "MM/DD/YYYY" string the source stores is the triple <<MM, DD, YYYY>>,*)
(*    whose lexicographic order is the order of the zero-padded strings;   *)
(*  - float("inf") in the DP table is absence from the table's domain.     *)
(***************************************************************************)
EXTENDS Integers, Sequences, FiniteSets, TLC

VARIABLES
    \* ---- one call of a selection strategy ----
    all_stays,            \* the candidate pool handed to the strategy
    target_points,        \* target_points / target_loyalty_points
    current_lp_balance,   \* current_lp_balance
    ret,                  \* what the last strategy call returned (NoCall before)
    \* ---- one call of find_best_hotel_deals ----
    args,                 \* the arguments of the call
    pc,                   \* where the call stands
    all_hotel_options_global,
    hotel_options_this_pass,
    current_search_pass_start_date,
    current_search_pass_end_date,
    current_iteration_pass,
    running_total_lp_achieved,
    city_idx,             \* index of the city being processed, from 0
    actual_location_name_used_for_city,
    future_to_date,       \* the dates whose future has not completed yet
    completed_dates_for_city,
    searched_windows,     \* history: the window of every pass that searched
    fetch_results,        \* history: what the fetch of each (city, date) of the
                          \* pass returned to future.result()
    progress_calls,       \* history: the calls of progress_callback in the pass
    returned              \* what find_best_hotel_deals returned (NoCall before)

selectVars == <<all_stays, target_points, current_lp_balance, ret>>

searchVars ==
    <<args, pc, all_hotel_options_global, hotel_options_this_pass,
      current_search_pass_start_date, current_search_pass_end_date,
      current_iteration_pass, running_total_lp_achieved, city_idx,
      actual_location_name_used_for_city, future_to_date,
      completed_dates_for_city, searched_windows, fetch_results,
      progress_calls, returned>>

vars == <<selectVars, searchVars>>

(***************************************************************************)
(* Program constants                                                       *)
(***************************************************************************)
PlatinumProThreshold == 100000
PlatinumThreshold == 60000
PlatinumProPercent == 30
PlatinumPercent == 20
MilesValueRateMilli == 15
DpBufferFloor == 1000
MaxIterationsPasses == 12
MaxFetchWorkers == 10
WindowExtensionDays == 29

\* Optional[int]: None is the empty sequence, the integer n is <<n>>
None == <<>>

Some(n) == <<n>>
NoCall == [strategy |-> "none"]

(***************************************************************************)
(* Generic helpers                                                         *)
(***************************************************************************)
Max2(a, b) == IF a >= b THEN a ELSE b

Min2(a, b) == IF a <= b THEN a ELSE b

MinOf(S) == CHOOSE x \in S : \A y \in S : x <= y

MaxOf(S) == CHOOSE x \in S : \A y \in S : x >= y

RECURSIVE SumSeq(_, _)
\* sum(f(x) for x in s), with the summand given as a field name
SumSeq(s, field) ==
    IF s = <<>> THEN 0 ELSE Head(s)[field] + SumSeq(Tail(s), field)

\* Python list.sort / sorted are stable: an element ends up behind the elements
\* that must precede it and behind the earlier elements it need not precede.
\* before holds the pairs <<j, i>> of positions with the key of s[j] strictly
\* before the key of s[i].
SortStable(s, before) ==
    LET rank(i) == 1 + Cardinality({j \in DOMAIN s :
                        \/ <<j, i>> \in before
                        \/ j < i /\ <<i, j>> \notin before})
    IN  [k \in 1..Len(s) |-> s[CHOOSE i \in 1..Len(s) : rank(i) = k]]

\* int(round(num / den)) for den > 0: Python 3 rounds halves to even; \div
\* rounds down and % is never negative, also for a negative num
PyRound(num, den) ==
    LET q == num \div den
        r == num % den
    IN  IF 2 * r < den THEN q
        ELSE IF 2 * r > den THEN q + 1
        ELSE IF q % 2 = 0 THEN q ELSE q + 1

(***************************************************************************)
(* Prices and costs are Python floats. A float keeps a fixed number of     *)
(* significant digits (53 binary ones in the source, 3 decimal ones here)  *)
(* and an addition rounds its exact result to them, a half to the even     *)
(* neighbour. A price is a whole number of the smallest unit.              *)
(***************************************************************************)
\* the spacing of the floats around v >= 0
FloatUlp(v) ==
    IF v < 1000 THEN 1 ELSE IF v < 10000 THEN 10 ELSE IF v < 100000 THEN 100 ELSE 1000

\* a + b on floats
FloatAdd(a, b) == PyRound(a + b, FloatUlp(a + b)) * FloatUlp(a + b)

RECURSIVE FloatSum(_, _)
\* sum(x[field] for x in s): the additions from 0 in the order of s
FloatSum(s, field) ==
    IF s = <<>> THEN 0
    ELSE FloatAdd(FloatSum(SubSeq(s, 1, Len(s) - 1), field), s[Len(s)][field])

(***************************************************************************)
(* Dates: strftime("%m/%d/%Y") and strptime(..., "%m/%d/%Y")               *)
(***************************************************************************)
\* A date is the number of days since 01/01/2025; the years 2025 to 2027 have
\* 365 days each. A "%m/%d/%Y" string is the tuple <<MM, DD, YYYY>>.
\* days before the first of each month in a non-leap year
DaysBeforeMonth == <<0, 31, 59, 90, 120, 151, 181, 212, 243, 273, 304, 334>>

Strftime(day) ==
    LET y == 2025 + (day \div 365)
        doy == day % 365
        m == MaxOf({k \in 1..12 : DaysBeforeMonth[k] <= doy})
    IN  <<m, doy - DaysBeforeMonth[m] + 1, y>>

Strptime(str) ==
    (str[3] - 2025) * 365 + DaysBeforeMonth[str[1]] + str[2] - 1

\* order of two "MM/DD/YYYY" strings as Python compares str
StrLess(a, b) ==
    \/ a[1] < b[1]
    \/ a[1] = b[1] /\ a[2] < b[2]
    \/ a[1] = b[1] /\ a[2] = b[2] /\ a[3] < b[3]

(***************************************************************************)
(* Hotel names, in the order Python compares the strings                   *)
(***************************************************************************)
HotelNames == <<"Ace", "Best", "Cozy", "Dune">>

NameRank(n) == CHOOSE i \in 1..Len(HotelNames) : HotelNames[i] = n

NameLess(a, b) == NameRank(a) < NameRank(b)

(***************************************************************************)
(* analyze_hotel_data: the stay dict built for one result item             *)
(***************************************************************************)
MakeStay(hotel_name, location_name, check_in_date_str, total_price, api_points_earned, aa_card_bonus, aa_card_miles_rate) ==
    LET card_lp_bonus_points ==
            IF aa_card_bonus /\ total_price > 0 THEN PyRound(total_price * 1, 1) ELSE 0
        card_miles_bonus_from_spend ==
            IF aa_card_bonus /\ total_price > 0
            THEN PyRound(total_price * aa_card_miles_rate, 1) ELSE 0
        points_earned_initial == api_points_earned + card_lp_bonus_points
        points_per_dollar_initial ==
            IF total_price > 0 THEN <<points_earned_initial, total_price>> ELSE <<0, 1>>
        initial_miles_earned == api_points_earned + card_miles_bonus_from_spend
    IN  [name |-> hotel_name,
         location |-> location_name,
         check_in_date |-> check_in_date_str,
         total_price |-> total_price,
         api_points_earned |-> api_points_earned,
         card_bonus_points |-> card_lp_bonus_points,
         points_earned |-> points_earned_initial,
         points_per_dollar |-> points_per_dollar_initial,
         status_bonus_points |-> 0,
         points_earned_final_for_itinerary |-> points_earned_initial,
         points_per_dollar_final_for_itinerary |-> points_per_dollar_initial,
         miles_earned |-> initial_miles_earned,
         miles_value |-> initial_miles_earned * MilesValueRateMilli]

(***************************************************************************)
(* _apply_status_bonus_and_recalculate                                     *)
(***************************************************************************)
\* a variant of StatusBonusPercentage whose brackets start above the thresholds
StatusBonusPercentageAbove(projected_lp_before_stay) ==
    IF projected_lp_before_stay > PlatinumProThreshold THEN PlatinumProPercent
    ELSE IF projected_lp_before_stay > PlatinumThreshold THEN PlatinumPercent
    ELSE 0

StatusBonusPercentage(projected_lp_before_stay) ==
    IF projected_lp_before_stay >= PlatinumProThreshold THEN PlatinumProPercent
    ELSE IF projected_lp_before_stay >= PlatinumThreshold THEN PlatinumPercent
    ELSE 0

\* a variant of ApplyStatusBonusAndRecalculate that takes the bonus on
\* points_earned, the card bonus included
ApplyStatusBonusOnAllPoints(stay, projected_lp_before_stay) ==
    LET status_bonus_points ==
            PyRound(stay.points_earned * StatusBonusPercentage(projected_lp_before_stay),
                    100)
        final == stay.points_earned + status_bonus_points
    IN  [stay EXCEPT
            !.status_bonus_points = status_bonus_points,
            !.points_earned_final_for_itinerary = final,
            !.points_per_dollar_final_for_itinerary =
                IF stay.total_price > 0 THEN <<final, stay.total_price>> ELSE <<0, 1>>,
            !.miles_earned = stay.miles_earned + status_bonus_points,
            !.miles_value = (stay.miles_earned + status_bonus_points) * MilesValueRateMilli]

\* a variant of StatusBonusPercentage that tests the balance after the stay's
\* own points were added
StatusBonusPercentageAfterStay(stay, projected_lp_before_stay) ==
    IF projected_lp_before_stay + stay.points_earned >= PlatinumProThreshold
    THEN PlatinumProPercent
    ELSE IF projected_lp_before_stay + stay.points_earned >= PlatinumThreshold
    THEN PlatinumPercent
    ELSE 0

\* lines 426-430, for the stay the function was called with
StatusBonusPercentageFor(stay, projected_lp_before_stay) ==
    StatusBonusPercentage(projected_lp_before_stay)

ApplyStatusBonusAndRecalculate(stay, projected_lp_before_stay) ==
    LET status_bonus_percentage ==
            StatusBonusPercentageFor(stay, projected_lp_before_stay)
        base_hotel_points == stay.api_points_earned
        status_bonus_points == PyRound(base_hotel_points * status_bonus_percentage, 100)
        final == stay.points_earned + status_bonus_points
        final_miles_earned_for_stay == stay.miles_earned + status_bonus_points
    IN  [stay EXCEPT
            !.status_bonus_points = status_bonus_points,
            !.points_earned_final_for_itinerary = final,
            !.points_per_dollar_final_for_itinerary =
                IF stay.total_price > 0 THEN <<final, stay.total_price>> ELSE <<0, 1>>,
            !.miles_earned = final_miles_earned_for_stay,
            !.miles_value = final_miles_earned_for_stay * MilesValueRateMilli]

\* a variant of StayAfterCall for a function that writes to its argument
StayAfterCallInPlace(stay, current_stay) == current_stay

\* the caller's dict after _apply_status_bonus_and_recalculate(stay, ...)
\* returned current_stay: the function writes to stay.copy(), a new dict
StayAfterCall(stay, current_stay) == stay

\* the three values every strategy returns
Result(itinerary, total_cost, achieved_points) ==
    [itinerary |-> itinerary, total_cost |-> total_cost,
     achieved_points |-> achieved_points]

\* a variant of ChronoBefore that compares the check_in_date strings
ChronoBeforeAsStrings(a, b) == StrLess(a.check_in_date, b.check_in_date)

\* key of selected_itinerary.sort(key=strptime(check_in_date))
ChronoBefore(a, b) == Strptime(a.check_in_date) < Strptime(b.check_in_date)

\* selected_itinerary.sort(key=strptime(check_in_date))
SortChrono(s) ==
    SortStable(s, {p \in (DOMAIN s) \X (DOMAIN s) : ChronoBefore(s[p[1]], s[p[2]])})

\* the strict order of the keys (a, b), compared as Python compares tuples of
\* numbers, for the quotients n1/d1 and n2/d2 with positive denominators
RatioLess(x, y) == x[1] * y[2] < y[1] * x[2]

(***************************************************************************)
(* select_optimal_stays_ppd                                                *)
(***************************************************************************)
\* sorted(..., key=(points_per_dollar, -total_price), reverse=True)
PpdKeyBefore(a, b) ==
    \/ RatioLess(b.points_per_dollar, a.points_per_dollar)
    \/ /\ ~RatioLess(a.points_per_dollar, b.points_per_dollar)
       /\ -a.total_price > -b.total_price

\* sorted(candidate_stays_orig, ..., reverse=True)
SortByPpdKey(s) ==
    SortStable(s, {p \in (DOMAIN s) \X (DOMAIN s) : PpdKeyBefore(s[p[1]], s[p[2]])})

\* a variant of AlreadyBooked that never finds the night booked
AlreadyBookedNever(check_in_str, booked_dates) == FALSE

\* "if check_in_str in booked_dates: continue"
AlreadyBooked(check_in_str, booked_dates) == check_in_str \in booked_dates

\* a variant of TargetMet that never ends a walk
TargetMetNever(accumulated, needed) == FALSE

\* "if projected_cumulative_lp >= target_points: break", and
\* "if accumulated_lp_from_new_stays >= relative_lp_needed: break"
TargetMet(accumulated, needed) == accumulated >= needed

RECURSIVE PpdWalk(_, _, _)
\* the for loop over sorted_initial_candidates; acc carries selected_itinerary,
\* projected_cumulative_lp, current_total_cost and booked_dates
PpdWalk(candidates, target, acc) ==
    IF candidates = <<>> THEN acc
    ELSE IF TargetMet(acc.projected_cumulative_lp, target) THEN acc
    ELSE LET stay_data == Head(candidates)
             check_in_str == stay_data.check_in_date
         IN  IF AlreadyBooked(check_in_str, acc.booked_dates)
             THEN PpdWalk(Tail(candidates), target, acc)
             ELSE LET current_stay_with_bonus ==
                          ApplyStatusBonusAndRecalculate(stay_data,
                                                         acc.projected_cumulative_lp)
                  IN  PpdWalk(Tail(candidates), target,
                        [selected_itinerary |->
                             Append(acc.selected_itinerary, current_stay_with_bonus),
                         projected_cumulative_lp |->
                             acc.projected_cumulative_lp
                               + current_stay_with_bonus.points_earned_final_for_itinerary,
                         current_total_cost |->
                             FloatAdd(acc.current_total_cost, current_stay_with_bonus.total_price),
                         booked_dates |-> acc.booked_dates \cup {check_in_str}])

\* a variant of WalkStart that starts the walk from a balance of 0
WalkStartWithoutBalance(balance) ==
    [selected_itinerary |-> <<>>, projected_cumulative_lp |-> 0,
     current_total_cost |-> 0, booked_dates |-> {}]

\* lines 482-485: the state of the walk before the first candidate
WalkStart(balance) ==
    [selected_itinerary |-> <<>>, projected_cumulative_lp |-> balance,
     current_total_cost |-> 0, booked_dates |-> {}]

\* a variant of select_optimal_stays_ppd that returns nothing when the stays
\* it accumulated fall short of the target
select_optimal_stays_ppd_or_nothing(stays, target, balance) ==
    LET candidate_stays_orig == SelectSeq(stays, LAMBDA s : s.api_points_earned > 0)
        w == PpdWalk(SortByPpdKey(candidate_stays_orig), target, WalkStart(balance))
    IN  IF candidate_stays_orig = <<>> \/ w.projected_cumulative_lp < target
        THEN Result(<<>>, 0, 0)
        ELSE Result(SortChrono(w.selected_itinerary), w.current_total_cost,
                    SumSeq(w.selected_itinerary, "points_earned_final_for_itinerary"))

select_optimal_stays_ppd(stays, target, balance) ==
    LET candidate_stays_orig == SelectSeq(stays, LAMBDA s : s.api_points_earned > 0)
    IN  IF candidate_stays_orig = <<>> THEN Result(<<>>, 0, 0)
        ELSE LET sorted_initial_candidates == SortByPpdKey(candidate_stays_orig)
                 w == PpdWalk(sorted_initial_candidates, target, WalkStart(balance))
                 final_achieved_points ==
                     SumSeq(w.selected_itinerary, "points_earned_final_for_itinerary")
             IN  Result(SortChrono(w.selected_itinerary),
                        w.current_total_cost, final_achieved_points)

(***************************************************************************)
(* select_cheapest_stays_for_target_lp                                     *)
(***************************************************************************)
\* sorted(..., key=(total_price, -points_earned, check_in_date))
CheapestKeyBefore(a, b) ==
    \/ a.total_price < b.total_price
    \/ a.total_price = b.total_price /\ -a.points_earned < -b.points_earned
    \/ /\ a.total_price = b.total_price
       /\ a.points_earned = b.points_earned
       /\ StrLess(a.check_in_date, b.check_in_date)

\* sorted(candidate_stays_orig, key=...)
SortByCheapestKey(s) ==
    SortStable(s, {p \in (DOMAIN s) \X (DOMAIN s) : CheapestKeyBefore(s[p[1]], s[p[2]])})

RECURSIVE CheapestWalk(_, _, _)
CheapestWalk(candidates, target, acc) ==
    IF candidates = <<>> THEN acc
    ELSE IF TargetMet(acc.projected_cumulative_lp, target) THEN acc
    ELSE LET stay_data == Head(candidates)
             check_in_str == stay_data.check_in_date
         IN  IF AlreadyBooked(check_in_str, acc.booked_dates)
             THEN CheapestWalk(Tail(candidates), target, acc)
             ELSE LET current_stay_with_bonus ==
                          ApplyStatusBonusAndRecalculate(stay_data,
                                                         acc.projected_cumulative_lp)
                  IN  CheapestWalk(Tail(candidates), target,
                        [selected_itinerary |->
                             Append(acc.selected_itinerary, current_stay_with_bonus),
                         projected_cumulative_lp |->
                             acc.projected_cumulative_lp
                               + current_stay_with_bonus.points_earned_final_for_itinerary,
                         current_total_cost |->
                             FloatAdd(acc.current_total_cost, current_stay_with_bonus.total_price),
                         booked_dates |-> acc.booked_dates \cup {check_in_str}])

select_cheapest_stays_for_target_lp(stays, target, balance) ==
    LET candidate_stays_orig ==
            SelectSeq(stays, LAMBDA s : s.api_points_earned > 0 /\ s.total_price > 0)
    IN  IF candidate_stays_orig = <<>> THEN Result(<<>>, 0, 0)
        ELSE LET sorted_initial_candidates ==
                     SortByCheapestKey(candidate_stays_orig)
                 w == CheapestWalk(sorted_initial_candidates, target, WalkStart(balance))
                 final_achieved_points ==
                     SumSeq(w.selected_itinerary, "points_earned_final_for_itinerary")
             IN  Result(SortChrono(w.selected_itinerary),
                        w.current_total_cost, final_achieved_points)

(***************************************************************************)
(* select_fastest_calendar_time_lp                                         *)
(***************************************************************************)
\* a variant of FastestKeyBefore that sorts the fewest points first
FastestKeyBeforeAscending(a, b) ==
    \/ a.points_earned_final_for_itinerary < b.points_earned_final_for_itinerary
    \/ /\ a.points_earned_final_for_itinerary = b.points_earned_final_for_itinerary
       /\ -a.total_price < -b.total_price

\* stays_ending_by_date.sort(key=(points_earned_final_for_itinerary,
\*                                -total_price), reverse=True)
FastestKeyBefore(a, b) ==
    \/ a.points_earned_final_for_itinerary > b.points_earned_final_for_itinerary
    \/ /\ a.points_earned_final_for_itinerary = b.points_earned_final_for_itinerary
       /\ -a.total_price > -b.total_price

\* stays_ending_by_date.sort(..., reverse=True)
SortByFastestKey(s) ==
    SortStable(s, {p \in (DOMAIN s) \X (DOMAIN s) : FastestKeyBefore(s[p[1]], s[p[2]])})

\* selected_itinerary.sort(key=(strptime(check_in_date), name))
ChronoNameBefore(a, b) ==
    \/ Strptime(a.check_in_date) < Strptime(b.check_in_date)
    \/ /\ Strptime(a.check_in_date) = Strptime(b.check_in_date)
       /\ NameLess(a.name, b.name)

\* selected_itinerary.sort(key=(date, name))
SortChronoName(s) ==
    SortStable(s, {p \in (DOMAIN s) \X (DOMAIN s) : ChronoNameBefore(s[p[1]], s[p[2]])})

\* a variant of CanAddStay that lets a night exceed max_overlaps by one
CanAddStayOffByOne(stay_to_consider, selected_itinerary, max_overlaps) ==
    IF max_overlaps # None /\ max_overlaps[1] > 0
    THEN LET num_existing_overlaps_for_this_date ==
                 Cardinality({i \in DOMAIN selected_itinerary :
                     Strptime(selected_itinerary[i].check_in_date)
                         = Strptime(stay_to_consider.check_in_date)})
         IN  ~(num_existing_overlaps_for_this_date > max_overlaps[1])
    ELSE TRUE

\* the overlap test of one stay_to_consider against selected_itinerary
CanAddStay(stay_to_consider, selected_itinerary, max_overlaps) ==
    IF max_overlaps # None /\ max_overlaps[1] > 0
    THEN LET num_existing_overlaps_for_this_date ==
                 Cardinality({i \in DOMAIN selected_itinerary :
                     Strptime(selected_itinerary[i].check_in_date)
                         = Strptime(stay_to_consider.check_in_date)})
         IN  ~(num_existing_overlaps_for_this_date >= max_overlaps[1])
    ELSE TRUE

RECURSIVE FastestWalk(_, _, _, _)
\* the for loop over stays_ending_by_date; acc carries selected_itinerary,
\* current_total_cost and accumulated_lp_from_new_stays
FastestWalk(candidates, relative_lp_needed, max_overlaps, acc) ==
    IF candidates = <<>> THEN acc
    ELSE IF TargetMet(acc.accumulated_lp_from_new_stays, relative_lp_needed) THEN acc
    ELSE LET stay_to_consider == Head(candidates)
         IN  IF ~CanAddStay(stay_to_consider, acc.selected_itinerary, max_overlaps)
             THEN FastestWalk(Tail(candidates), relative_lp_needed, max_overlaps, acc)
             ELSE FastestWalk(Tail(candidates), relative_lp_needed, max_overlaps,
                    [selected_itinerary |->
                         Append(acc.selected_itinerary, stay_to_consider),
                     current_total_cost |->
                         FloatAdd(acc.current_total_cost, stay_to_consider.total_price),
                     accumulated_lp_from_new_stays |->
                         acc.accumulated_lp_from_new_stays
                           + stay_to_consider.points_earned_final_for_itinerary])

\* a variant of CandidateStaysWithInitialBonus that gives each candidate the
\* bonus of the balance with the points of the candidates before it
CandidateStaysWithRunningBonus(stays, balance) ==
    LET kept == SelectSeq(stays, LAMBDA s : ~(s.api_points_earned <= 0))
    IN  [i \in 1..Len(kept) |->
            ApplyStatusBonusAndRecalculate(kept[i],
                balance + SumSeq(SubSeq(kept, 1, i - 1), "points_earned"))]

\* the stays that are candidates, each with the bonus of the starting balance
CandidateStaysWithInitialBonus(stays, balance) ==
    LET kept == SelectSeq(stays, LAMBDA s : ~(s.api_points_earned <= 0))
    IN  [i \in 1..Len(kept) |-> ApplyStatusBonusAndRecalculate(kept[i], balance)]

UniqueCheckoutDates(candidates) ==
    {Strptime(candidates[i].check_in_date) + 1 : i \in DOMAIN candidates}

\* stays_ending_by_date of one potential_completion_date
StaysEndingByDate(candidates, potential_completion_date) ==
    SelectSeq(candidates,
        LAMBDA s : Strptime(s.check_in_date) < potential_completion_date)

\* the greedy fit of one potential_completion_date
TryCompletionDate(stays_ending_by_date, relative_lp_needed, max_overlaps) ==
    FastestWalk(SortByFastestKey(stays_ending_by_date),
                relative_lp_needed, max_overlaps,
                [selected_itinerary |-> <<>>, current_total_cost |-> 0,
                 accumulated_lp_from_new_stays |-> 0])

RECURSIVE FastestScan(_, _, _, _, _)
\* the loop over the sorted unique_checkout_dates, given as the set still to try
FastestScan(candidates, dates, target, balance, max_overlaps) ==
    IF dates = {} THEN Result(<<>>, 0, balance)
    ELSE LET potential_completion_date == MinOf(dates)
             stays_ending_by_date ==
                 StaysEndingByDate(candidates, potential_completion_date)
             relative_lp_needed == target - balance
             w == TryCompletionDate(stays_ending_by_date, relative_lp_needed,
                                    max_overlaps)
         IN  IF stays_ending_by_date = <<>>
             THEN FastestScan(candidates, dates \ {potential_completion_date},
                              target, balance, max_overlaps)
             ELSE IF relative_lp_needed <= 0 THEN Result(<<>>, 0, balance)
             ELSE IF w.accumulated_lp_from_new_stays >= relative_lp_needed
             THEN Result(SortChronoName(w.selected_itinerary),
                         w.current_total_cost,
                         balance + w.accumulated_lp_from_new_stays)
             ELSE FastestScan(candidates, dates \ {potential_completion_date},
                              target, balance, max_overlaps)

select_fastest_calendar_time_lp(stays, target, balance, max_overlaps) ==
    IF stays = <<>> THEN Result(<<>>, 0, balance)
    ELSE LET candidate_stays_with_initial_bonus ==
                 CandidateStaysWithInitialBonus(stays, balance)
         IN  IF candidate_stays_with_initial_bonus = <<>> THEN Result(<<>>, 0, balance)
             ELSE FastestScan(candidate_stays_with_initial_bonus,
                              UniqueCheckoutDates(candidate_stays_with_initial_bonus),
                              target, balance, max_overlaps)

(***************************************************************************)
(* select_optimal_stays_dp                                                 *)
(***************************************************************************)
\* a variant of ReplacesBest that keeps the dearer stay of a night
ReplacesBestDearer(stay, best) ==
    \/ stay.points_earned > best.points_earned
    \/ stay.points_earned = best.points_earned /\ stay.total_price > best.total_price

\* whether stay replaces best_initial_stay_per_date[date_str]
ReplacesBest(stay, best) ==
    \/ stay.points_earned > best.points_earned
    \/ stay.points_earned = best.points_earned /\ stay.total_price < best.total_price

RECURSIVE BestInitialStayPerDate(_, _)
\* Phase 1. The dict best_initial_stay_per_date as the sequence of its values:
\* a dict keeps its keys in the order of their first insertion.
BestInitialStayPerDate(stays, best) ==
    IF stays = <<>> THEN best
    ELSE LET stay == Head(stays)
             date_str == stay.check_in_date
             at == {i \in DOMAIN best : best[i].check_in_date = date_str}
         IN  IF stay.points_earned <= 0 \/ stay.total_price <= 0
             THEN BestInitialStayPerDate(Tail(stays), best)
             ELSE IF at = {}
             THEN BestInitialStayPerDate(Tail(stays), Append(best, stay))
             ELSE LET i == CHOOSE k \in at : TRUE
                  IN  IF ReplacesBest(stay, best[i])
                      THEN BestInitialStayPerDate(Tail(stays), [best EXCEPT ![i] = stay])
                      ELSE BestInitialStayPerDate(Tail(stays), best)

\* a variant of MaxDpPointsRange that leaves no buffer above the relative target
MaxDpPointsRangeNoBuffer(candidate_stays_for_dp, relative_target_points) ==
    relative_target_points

\* buffer_points and max_dp_points_range
MaxDpPointsRange(candidate_stays_for_dp, relative_target_points) ==
    LET max_initial_points_for_dp_range ==
            MaxOf({candidate_stays_for_dp[i].points_earned :
                       i \in DOMAIN candidate_stays_for_dp} \cup {0})
        buffer_points ==
            Max2(max_initial_points_for_dp_range,
                 Max2((relative_target_points * 2) \div 10, DpBufferFloor))
        range == relative_target_points + buffer_points
    IN  IF range <= 0 THEN relative_target_points ELSE range

\* The tables dp_min_cost and dp_itinerary_indices as one function: its domain
\* holds the indices p with dp_min_cost[p] finite, and dp[p] is the pair
\* [cost |-> dp_min_cost[p], idx |-> dp_itinerary_indices[p]].
DpStart == [p \in {0} |-> [cost |-> 0, idx |-> <<>>]]

\* the inner loop "for p in range(max_dp_points_range, s_points - 1, -1)" for
\* the stay of index idx: p runs downwards and s_points > 0, so every
\* dp[p - s_points] read is the value the table had before this stay
DpTakeStay(dp, idx, s_cost, s_points, max_dp_points_range) ==
    LET reach == {q + s_points : q \in DOMAIN dp} \cap 0..max_dp_points_range
        taken(p) == [cost |-> FloatAdd(dp[p - s_points].cost, s_cost),
                     idx |-> Append(dp[p - s_points].idx, idx - 1)]
    IN  [p \in DOMAIN dp \cup reach |->
            IF p \notin reach THEN dp[p]
            ELSE IF p \notin DOMAIN dp THEN taken(p)
            ELSE IF taken(p).cost < dp[p].cost THEN taken(p)
            ELSE IF taken(p).cost = dp[p].cost /\ Len(taken(p).idx) < Len(dp[p].idx)
            THEN [dp[p] EXCEPT !.idx = taken(p).idx]
            ELSE dp[p]]

RECURSIVE DpFill(_, _, _, _)
\* Phase 2: the loop "for idx, stay_dp_data in enumerate(candidate_stays_for_dp)"
DpFill(dp, candidate_stays_for_dp, idx, max_dp_points_range) ==
    IF idx > Len(candidate_stays_for_dp) THEN dp
    ELSE LET s_cost == candidate_stays_for_dp[idx].total_price
             s_points == candidate_stays_for_dp[idx].points_earned
         IN  IF s_points <= 0
             THEN DpFill(dp, candidate_stays_for_dp, idx + 1, max_dp_points_range)
             ELSE DpFill(DpTakeStay(dp, idx, s_cost, s_points, max_dp_points_range),
                         candidate_stays_for_dp, idx + 1, max_dp_points_range)

\* sum(candidate_stays_for_dp[i]["points_earned"] for i in indices), the
\* indices counted from 0 as in the source
PathPoints(candidate_stays_for_dp, indices) ==
    SumSeq([k \in 1..Len(indices) |-> candidate_stays_for_dp[indices[k] + 1]],
           "points_earned")

RECURSIVE DpReadOut(_, _, _, _)
\* the loop "for p_relative in range(relative_target_points,
\* max_dp_points_range + 1)" over the finite entries still to read; best is
\* [found, cost, idx] for min_total_cost_from_dp and
\* best_itinerary_indices_from_dp (an infinite entry changes neither)
DpReadOut(dp, todo, candidate_stays_for_dp, best) ==
    IF todo = {} THEN best
    ELSE LET p_relative == MinOf(todo)
             rest == todo \ {p_relative}
         IN  IF ~best.found \/ dp[p_relative].cost < best.cost
             THEN DpReadOut(dp, rest, candidate_stays_for_dp,
                            [found |-> TRUE, cost |-> dp[p_relative].cost,
                             idx |-> dp[p_relative].idx])
             ELSE IF dp[p_relative].cost = best.cost
                     /\ PathPoints(candidate_stays_for_dp, dp[p_relative].idx)
                          > PathPoints(candidate_stays_for_dp, best.idx)
             THEN DpReadOut(dp, rest, candidate_stays_for_dp,
                            [best EXCEPT !.idx = dp[p_relative].idx])
             ELSE DpReadOut(dp, rest, candidate_stays_for_dp, best)

RECURSIVE DpFinalPass(_, _)
\* the loop over temp_selected_stays; acc carries
\* final_itinerary_with_status_bonus, projected_cumulative_lp_for_final_calc
\* and final_total_cost
DpFinalPass(temp_selected_stays, acc) ==
    IF temp_selected_stays = <<>> THEN acc
    ELSE LET current_stay_with_bonus ==
                 ApplyStatusBonusAndRecalculate(Head(temp_selected_stays),
                                                acc.projected_cumulative_lp)
         IN  DpFinalPass(Tail(temp_selected_stays),
                [itinerary |-> Append(acc.itinerary, current_stay_with_bonus),
                 projected_cumulative_lp |->
                     acc.projected_cumulative_lp
                       + current_stay_with_bonus.points_earned_final_for_itinerary,
                 final_total_cost |->
                     FloatAdd(acc.final_total_cost, current_stay_with_bonus.total_price)])

select_optimal_stays_dp(stays, target, balance) ==
    IF stays = <<>> \/ target <= 0
    THEN Result(<<>>, 0, IF target <= 0 THEN balance ELSE 0)
    ELSE LET candidate_stays_for_dp == BestInitialStayPerDate(stays, <<>>)
             relative_target_points == Max2(0, target - balance)
             max_dp_points_range ==
                 MaxDpPointsRange(candidate_stays_for_dp, relative_target_points)
             dp == DpFill(DpStart, candidate_stays_for_dp, 1, max_dp_points_range)
             best == DpReadOut(dp,
                         DOMAIN dp \cap relative_target_points..max_dp_points_range,
                         candidate_stays_for_dp,
                         [found |-> FALSE, cost |-> 0, idx |-> <<>>])
             temp_selected_stays ==
                 SortChrono([k \in 1..Len(best.idx) |->
                                 candidate_stays_for_dp[best.idx[k] + 1]])
             final == DpFinalPass(temp_selected_stays,
                         [itinerary |-> <<>>, projected_cumulative_lp |-> balance,
                          final_total_cost |-> 0])
         IN  IF candidate_stays_for_dp = <<>> THEN Result(<<>>, 0, balance)
             ELSE IF relative_target_points = 0 THEN Result(<<>>, 0, balance)
             ELSE IF ~best.found THEN Result(<<>>, 0, balance)
             ELSE Result(final.itinerary, final.final_total_cost,
                         final.projected_cumulative_lp)

(***************************************************************************)
(* The caller's list of stays after a strategy has run on it               *)
(***************************************************************************)
\* select_optimal_stays_ppd and select_cheapest_stays_for_target_lp pass the
\* dicts of the pool they select to _apply_status_bonus_and_recalculate and
\* append what it returns to the itinerary
PoolAfterSelection(pool, itinerary) ==
    [i \in DOMAIN pool |->
        IF \E j \in DOMAIN itinerary :
               /\ itinerary[j].name = pool[i].name
               /\ itinerary[j].location = pool[i].location
               /\ itinerary[j].check_in_date = pool[i].check_in_date
               /\ itinerary[j].total_price = pool[i].total_price
        THEN StayAfterCall(pool[i],
                 itinerary[CHOOSE j \in DOMAIN itinerary :
                              /\ itinerary[j].name = pool[i].name
                              /\ itinerary[j].location = pool[i].location
                              /\ itinerary[j].check_in_date = pool[i].check_in_date
                              /\ itinerary[j].total_price = pool[i].total_price])
        ELSE pool[i]]

\* select_fastest_calendar_time_lp passes every dict of the pool with
\* api_points_earned > 0 to _apply_status_bonus_and_recalculate
PoolAfterFastest(pool, current_lp_balance_arg) ==
    [i \in DOMAIN pool |->
        IF pool[i].api_points_earned > 0
        THEN StayAfterCall(pool[i],
                 ApplyStatusBonusAndRecalculate(pool[i], current_lp_balance_arg))
        ELSE pool[i]]

\* select_optimal_stays_dp works on s_orig.copy() of every dict of the pool
PoolAfterDp(pool) == pool

(***************************************************************************)
(* The stays the external hotel search can return                          *)
(***************************************************************************)
MaxPool == 3
MaxOverlapsBound == 2

\* three consecutive nights across a year's end: 12/30/2025, 12/31/2025 and
\* 01/01/2026, whose strings do not sort as the dates do
FirstNight == Strptime(<<12, 30, 2025>>)

Night(k) == Strftime(FirstNight + k - 1)

\* <<hotel name, night, total price, api points>> of every offer
Offers ==
    << <<"Ace",  1, 100, 50000>>,
       <<"Best", 2,  80, 40000>>,
       <<"Cozy", 3,  60, 30000>>,
       <<"Best", 1,  50, 10000>>,
       <<"Ace",  2,  60, 10005>>,
       <<"Cozy", 1,  70,     0>>,
       <<"Dune", 3,   0, 20000>>,
       <<"Dune", 1, 120, 50000>> >>

Locations == {"Phoenix", "Tempe"}

\* the location of the pools handed to a strategy directly
SelectLocation == "Phoenix"

CardMilesRates == {1, 10}

\* the stay analyze_hotel_data builds for offer k
OfferStay(k, location_name, aa_card_bonus, aa_card_miles_rate) ==
    MakeStay(Offers[k][1], location_name, Night(Offers[k][2]), Offers[k][3],
             Offers[k][4], aa_card_bonus, aa_card_miles_rate)

Catalogue(aa_card_bonus, aa_card_miles_rate) ==
    {OfferStay(k, SelectLocation, aa_card_bonus, aa_card_miles_rate) :
        k \in DOMAIN Offers}

\* the pools of at most MaxPool stays, no stay twice, in every order
Pools(stays) ==
    {q \in UNION {[1..n -> stays] : n \in 0..MaxPool} :
        \A i, j \in DOMAIN q : i # j => q[i] # q[j]}

Targets == {0, 72000, 90000, 125000}

Balances == {0, 60000, 100000}

OverlapChoices == {None} \cup {Some(n) : n \in 0..MaxOverlapsBound}

(***************************************************************************)
(* Calls of the selection strategies on a pool                             *)
(***************************************************************************)
Returned(strategy, max_overlaps, r) ==
    [strategy |-> strategy, max_overlaps |-> max_overlaps,
     itinerary |-> r.itinerary, total_cost |-> r.total_cost,
     achieved_points |-> r.achieved_points]

\* no call of find_best_hotel_deals
SearchIdle ==
    /\ args = NoCall
    /\ pc = "idle"
    /\ all_hotel_options_global = <<>>
    /\ hotel_options_this_pass = <<>>
    /\ current_search_pass_start_date = 0
    /\ current_search_pass_end_date = 0
    /\ current_iteration_pass = 0
    /\ running_total_lp_achieved = 0
    /\ city_idx = 0
    /\ actual_location_name_used_for_city = ""
    /\ future_to_date = {}
    /\ completed_dates_for_city = 0
    /\ searched_windows = <<>>
    /\ fetch_results = <<>>
    /\ progress_calls = <<>>
    /\ returned = NoCall

\* no direct call of a strategy
SelectIdle ==
    /\ all_stays = <<>>
    /\ target_points = 0
    /\ current_lp_balance = 0
    /\ ret = NoCall

SelectInit ==
    /\ SearchIdle
    /\ \E aa_card_bonus \in BOOLEAN, aa_card_miles_rate \in CardMilesRates :
          all_stays \in Pools(Catalogue(aa_card_bonus, aa_card_miles_rate))
    /\ target_points \in Targets
    /\ current_lp_balance \in Balances
    /\ ret = NoCall

CallPpd ==
    /\ ret = NoCall
    /\ LET r == select_optimal_stays_ppd(all_stays, target_points, current_lp_balance)
       IN  /\ ret' = Returned("points_per_dollar", None, r)
           /\ all_stays' = PoolAfterSelection(all_stays, r.itinerary)
    /\ UNCHANGED <<target_points, current_lp_balance, searchVars>>

CallCheapest ==
    /\ ret = NoCall
    /\ LET r == select_cheapest_stays_for_target_lp(all_stays, target_points,
                                                    current_lp_balance)
       IN  /\ ret' = Returned("minimize_cost_for_target_lp", None, r)
           /\ all_stays' = PoolAfterSelection(all_stays, r.itinerary)
    /\ UNCHANGED <<target_points, current_lp_balance, searchVars>>

CallDp ==
    /\ ret = NoCall
    /\ ret' = Returned("dp_minimize_cost", None,
                  select_optimal_stays_dp(all_stays, target_points, current_lp_balance))
    /\ all_stays' = PoolAfterDp(all_stays)
    /\ UNCHANGED <<target_points, current_lp_balance, searchVars>>

CallFastest ==
    /\ ret = NoCall
    /\ \E max_overlaps \in OverlapChoices :
          ret' = Returned("fastest_calendar_time_lp", max_overlaps,
                     select_fastest_calendar_time_lp(all_stays, target_points,
                                                     current_lp_balance, max_overlaps))
    /\ all_stays' = PoolAfterFastest(all_stays, current_lp_balance)
    /\ UNCHANGED <<target_points, current_lp_balance, searchVars>>

SelectNext == CallPpd \/ CallCheapest \/ CallDp \/ CallFastest

SelectSpec == SelectInit /\ [][SelectNext]_vars

(***************************************************************************)
(* find_best_hotel_deals                                                   *)
(***************************************************************************)
MaxInFlight == 2

generate_date_range(start_date, end_date) == start_date..end_date

\* the strategy dispatch of the per-pass check and of the final run
RunStrategy(optimization_strategy, pool, target, balance, max_overlaps) ==
    IF optimization_strategy = "minimize_cost_for_target_lp"
    THEN select_cheapest_stays_for_target_lp(pool, target, balance)
    ELSE IF optimization_strategy = "dp_minimize_cost"
    THEN select_optimal_stays_dp(pool, target, balance)
    ELSE IF optimization_strategy = "fastest_calendar_time_lp"
    THEN select_fastest_calendar_time_lp(pool, target, balance, max_overlaps)
    ELSE select_optimal_stays_ppd(pool, target, balance)

\* the list passed to the strategy, after the call
PoolAfterRun(optimization_strategy, pool, balance, itinerary) ==
    IF optimization_strategy = "dp_minimize_cost"
    THEN PoolAfterDp(pool)
    ELSE IF optimization_strategy = "fastest_calendar_time_lp"
    THEN PoolAfterFastest(pool, balance)
    ELSE PoolAfterSelection(pool, itinerary)

\* hotel_key / existing_key
HotelKey(h) == <<h.name, h.location, h.check_in_date, h.total_price>>

\* a variant of MergeNewOptions that tests each new stay against the pool as
\* it was before the pass
MergeNewOptionsStale(global, this_pass) ==
    global \o SelectSeq(this_pass,
                 LAMBDA h_new : \A i \in DOMAIN global :
                                   HotelKey(h_new) # HotelKey(global[i]))

RECURSIVE MergeNewOptions(_, _)
\* the loop "for h_new in hotel_options_this_pass" over all_hotel_options_global
MergeNewOptions(global, this_pass) ==
    IF this_pass = <<>> THEN global
    ELSE LET h_new == Head(this_pass)
             is_duplicate ==
                 \E i \in DOMAIN global : HotelKey(h_new) = HotelKey(global[i])
         IN  IF ~is_duplicate
             THEN MergeNewOptions(Append(global, h_new), Tail(this_pass))
             ELSE MergeNewOptions(global, Tail(this_pass))

\* what the external search offers for one night in one location
OffersOn(current_date, location_name, aa_card_bonus, aa_card_miles_rate) ==
    LET ks == SelectSeq([k \in DOMAIN Offers |-> k],
                        LAMBDA k : FirstNight + Offers[k][2] - 1 = current_date)
    IN  [i \in 1..Len(ks) |->
            OfferStay(ks[i], location_name, aa_card_bonus, aa_card_miles_rate)]

\* the outcomes of future.result() for fetch_data_for_date: an exception, no
\* stays (the search or its results failed), or the stays of the night
FetchOutcomes(current_date, location_name, aa_card_bonus, aa_card_miles_rate) ==
    {[raised |-> TRUE, stays |-> <<>>],
     [raised |-> FALSE, stays |-> <<>>],
     [raised |-> FALSE,
      stays |-> OffersOn(current_date, location_name, aa_card_bonus,
                         aa_card_miles_rate)]}

\* the futures that can be the next to complete: the executor starts the
\* submitted fetches in order, num_workers at a time
CanCompleteNext ==
    LET dates == generate_date_range(current_search_pass_start_date,
                                     current_search_pass_end_date)
        num_workers == Max2(1, Min2(MaxFetchWorkers, Cardinality(dates)))
        running == Min2(num_workers, MaxInFlight)
    IN  {d \in future_to_date :
            d - current_search_pass_start_date + 1
                <= completed_dates_for_city + running}

SearchStrategies ==
    {"points_per_dollar", "minimize_cost_for_target_lp", "dp_minimize_cost",
     "fastest_calendar_time_lp"}

\* the place discover_place_ids resolves a query to, when it resolves it
PlaceOf(query) == IF query = "tempe" THEN "Tempe" ELSE "Phoenix"

CityQueryLists == {<<"phoenix">>, <<"phoenix", "tempe">>, <<"phoenix", "phoenix">>}

SearchTargets == {72000, 125000}

SearchBalances == {0, 60000}

\* max_overlaps is read by fastest_calendar_time_lp alone
StrategyChoices ==
    {<<st, None>> : st \in SearchStrategies}
        \cup {<<"fastest_calendar_time_lp", Some(1)>>}

\* an empty window, and the window of the first two nights
SearchEndDates == {FirstNight - 1, FirstNight + 1}

ShortDayLimits == {-1, 2}

LongDayLimit == 400

SearchArgsOf(queries, end_dates, iterative, day_limits, targets, balances, choices) ==
    {[city_queries |-> q,
      start_date |-> FirstNight,
      end_date |-> e,
      target_loyalty_points |-> t,
      aa_card_bonus |-> FALSE,
      aa_card_miles_rate |-> 1,
      optimization_strategy |-> sc[1],
      iterative_search_for_lp_target |-> it,
      max_search_days_iterative |-> dl,
      current_lp_balance |-> b,
      max_overlaps |-> sc[2]] :
        q \in queries, e \in end_dates, t \in targets, b \in balances,
        sc \in choices, it \in iterative, dl \in day_limits}

\* searches of a horizon of a few days with one or two cities, and an
\* iterative search of one city over a horizon long enough for the cap of passes
SearchArgs ==
    SearchArgsOf(CityQueryLists, SearchEndDates, BOOLEAN, ShortDayLimits,
                 SearchTargets, SearchBalances, StrategyChoices)
        \cup SearchArgsOf({<<"phoenix">>}, {FirstNight + 1}, {TRUE}, {LongDayLimit},
                          {125000}, {0}, {<<"points_per_dollar", None>>})

absolute_max_end_date_for_search == args.start_date + args.max_search_days_iterative

\* lines 879-891: the state before the first pass
Init ==
    /\ SelectIdle
    /\ args \in SearchArgs
    /\ pc = "pass"
    /\ all_hotel_options_global = <<>>
    /\ hotel_options_this_pass = <<>>
    /\ current_search_pass_start_date = args.start_date
    /\ current_search_pass_end_date = args.end_date
    /\ current_iteration_pass = 0
    /\ running_total_lp_achieved = args.current_lp_balance
    /\ city_idx = 0
    /\ actual_location_name_used_for_city = ""
    /\ future_to_date = {}
    /\ completed_dates_for_city = 0
    /\ searched_windows = <<>>
    /\ fetch_results = <<>>
    /\ progress_calls = <<>>
    /\ returned = NoCall

\* a variant of MaxPassesExceeded that lets one more pass through
MaxPassesExceededLate(pass) ==
    /\ args.iterative_search_for_lp_target
    /\ pass > MaxIterationsPasses + 1

\* "if iterative_search_for_lp_target and
\*  current_iteration_pass > max_iterations_passes"
MaxPassesExceeded(pass) ==
    /\ args.iterative_search_for_lp_target
    /\ pass > MaxIterationsPasses

\* lines 893-929: the head of one iteration of "while True"
BeginPass ==
    /\ pc = "pass"
    /\ current_iteration_pass' = current_iteration_pass + 1
    /\ LET date_range_chunk_for_pass ==
               generate_date_range(current_search_pass_start_date,
                                   current_search_pass_end_date)
           stop ==
               \/ MaxPassesExceeded(current_iteration_pass')
               \/ /\ args.iterative_search_for_lp_target
                  /\ current_search_pass_start_date > absolute_max_end_date_for_search
               \/ /\ date_range_chunk_for_pass = {}
                  /\ \/ ~args.iterative_search_for_lp_target
                     \/ current_search_pass_start_date > current_search_pass_end_date
       IN  IF stop
           THEN /\ pc' = "final"
                /\ UNCHANGED <<hotel_options_this_pass, city_idx, searched_windows,
                               fetch_results, progress_calls>>
           ELSE /\ pc' = "city"
                /\ hotel_options_this_pass' = <<>>
                /\ city_idx' = 0
                /\ searched_windows' =
                       Append(searched_windows,
                              <<current_search_pass_start_date,
                                current_search_pass_end_date>>)
                /\ fetch_results' = <<>>
                /\ progress_calls' = <<>>
    /\ UNCHANGED <<selectVars, args, all_hotel_options_global,
                   current_search_pass_start_date, current_search_pass_end_date,
                   running_total_lp_achieved, actual_location_name_used_for_city,
                   future_to_date, completed_dates_for_city, returned>>

\* the counts and the context progress_callback is called with
ProgressCall(completed, total, pass, city) ==
    [completed |-> completed, total |-> total, pass |-> pass, city |-> city]

\* lines 931-985: discover_place_ids finds no place id; the city is skipped
SkipCity ==
    /\ pc = "city"
    /\ city_idx < Len(args.city_queries)
    /\ city_idx' = city_idx + 1
    /\ progress_calls' =
           Append(progress_calls,
                  ProgressCall(0, 0, current_iteration_pass, city_idx + 1))
    /\ UNCHANGED <<selectVars, args, pc, all_hotel_options_global,
                   hotel_options_this_pass, current_search_pass_start_date,
                   current_search_pass_end_date, current_iteration_pass,
                   running_total_lp_achieved, actual_location_name_used_for_city,
                   future_to_date, completed_dates_for_city, searched_windows,
                   fetch_results, returned>>

\* lines 931-1031: a place id is found and one fetch per date is submitted
SubmitFetches ==
    /\ pc = "city"
    /\ city_idx < Len(args.city_queries)
    /\ actual_location_name_used_for_city' = PlaceOf(args.city_queries[city_idx + 1])
    /\ future_to_date' = generate_date_range(current_search_pass_start_date,
                                             current_search_pass_end_date)
    /\ completed_dates_for_city' = 0
    /\ pc' = "fetching"
    /\ UNCHANGED <<selectVars, args, all_hotel_options_global,
                   hotel_options_this_pass, current_search_pass_start_date,
                   current_search_pass_end_date, current_iteration_pass,
                   running_total_lp_achieved, city_idx, searched_windows,
                   fetch_results, progress_calls, returned>>

\* a variant of CollectResult in which a failed fetch discards the stays the
\* pass has collected
CollectResultOrDiscard(collected, outcome) ==
    IF outcome.raised THEN <<>> ELSE collected \o outcome.stays

\* a variant of CollectResult in which the stays of a fetch replace what its
\* siblings added
CollectResultLastWins(collected, outcome) ==
    IF ~outcome.raised /\ outcome.stays # <<>>
    THEN outcome.stays
    ELSE collected

\* the try / except around future.result(): the stays of a fetch that returned
\* some are added, an exception or an empty result adds nothing
CollectResult(collected, outcome) ==
    IF ~outcome.raised /\ outcome.stays # <<>>
    THEN collected \o outcome.stays
    ELSE collected

\* a variant of ProgressAfterFetch that reports the fetches that did not raise
ProgressAfterFetchOnSuccess(calls, outcome, call) ==
    IF outcome.raised THEN calls ELSE Append(calls, call)

\* the finally clause: progress_callback is called whatever the fetch did
ProgressAfterFetch(calls, outcome, call) == Append(calls, call)

\* lines 1033-1062: one future of as_completed; after the last one the
\* executor is left and the next city follows
FutureCompleted ==
    /\ pc = "fetching"
    /\ \E current_date \in CanCompleteNext :
        \E outcome \in FetchOutcomes(current_date, actual_location_name_used_for_city,
                                     args.aa_card_bonus, args.aa_card_miles_rate) :
            /\ hotel_options_this_pass' =
                   CollectResult(hotel_options_this_pass, outcome)
            /\ fetch_results' =
                   fetch_results
                       @@ (<<city_idx + 1, current_date>> :>
                               IF outcome.raised THEN <<>> ELSE outcome.stays)
            /\ completed_dates_for_city' = completed_dates_for_city + 1
            /\ progress_calls' =
                   ProgressAfterFetch(progress_calls, outcome,
                       ProgressCall(completed_dates_for_city',
                                    Cardinality(generate_date_range(
                                        current_search_pass_start_date,
                                        current_search_pass_end_date)),
                                    current_iteration_pass, city_idx + 1))
            /\ future_to_date' = future_to_date \ {current_date}
            /\ IF future_to_date' = {}
               THEN pc' = "city" /\ city_idx' = city_idx + 1
               ELSE UNCHANGED <<pc, city_idx>>
    /\ UNCHANGED <<selectVars, args, all_hotel_options_global,
                   current_search_pass_start_date, current_search_pass_end_date,
                   current_iteration_pass, running_total_lp_achieved,
                   actual_location_name_used_for_city, searched_windows, returned>>

\* a variant of SinglePassOnly that extends the search in every mode
SinglePassOnlyNever == FALSE

\* "if not iterative_search_for_lp_target: break"
SinglePassOnly == ~args.iterative_search_for_lp_target

\* a variant of NextWindowEnd that does not clamp to the horizon
NextWindowEndUnclamped(next_start) == next_start + WindowExtensionDays

\* lines 1150-1153: current_search_pass_end_date of the next pass
NextWindowEnd(next_start) ==
    Min2(next_start + WindowExtensionDays, absolute_max_end_date_for_search)

\* lines 1064-1167: the merge into the global pool, the strategy run that
\* decides continuation, and the advance of the window
EndPass ==
    /\ pc = "city"
    /\ city_idx = Len(args.city_queries)
    /\ LET merged ==
               IF hotel_options_this_pass # <<>>
               THEN MergeNewOptions(all_hotel_options_global, hotel_options_this_pass)
               ELSE all_hotel_options_global
           temp ==
               RunStrategy(args.optimization_strategy, merged,
                           args.target_loyalty_points, args.current_lp_balance,
                           args.max_overlaps)
           temp_total_lp ==
               IF merged # <<>> THEN temp.achieved_points
               ELSE running_total_lp_achieved
           next_start == current_search_pass_end_date + 1
           next_end == NextWindowEnd(next_start)
       IN  /\ all_hotel_options_global' =
                  IF merged # <<>>
                  THEN PoolAfterRun(args.optimization_strategy, merged,
                                    args.current_lp_balance, temp.itinerary)
                  ELSE merged
           /\ running_total_lp_achieved' = temp_total_lp
           /\ IF SinglePassOnly
              THEN /\ pc' = "final"
                   /\ UNCHANGED <<current_search_pass_start_date,
                                  current_search_pass_end_date>>
              ELSE IF temp_total_lp >= args.target_loyalty_points
              THEN /\ pc' = "final"
                   /\ UNCHANGED <<current_search_pass_start_date,
                                  current_search_pass_end_date>>
              ELSE /\ current_search_pass_start_date' = next_start
                   /\ current_search_pass_end_date' = next_end
                   /\ pc' = IF next_start > next_end THEN "final" ELSE "pass"
    /\ UNCHANGED <<selectVars, args, hotel_options_this_pass, current_iteration_pass,
                   city_idx, actual_location_name_used_for_city, future_to_date,
                   completed_dates_for_city, searched_windows, fetch_results,
                   progress_calls, returned>>

\* a variant of FinalRun that starts the strategy from a balance of 0
FinalRunWithoutBalance(pool) ==
    RunStrategy(args.optimization_strategy, pool, args.target_loyalty_points,
                0, args.max_overlaps)

\* lines 1176-1208: the run of the selected strategy after the loop
FinalRun(pool) ==
    RunStrategy(args.optimization_strategy, pool, args.target_loyalty_points,
                args.current_lp_balance, args.max_overlaps)

\* lines 1169-1210: the final run of the strategy and the return
FinalOptimization ==
    /\ pc = "final"
    /\ pc' = "done"
    /\ IF all_hotel_options_global = <<>>
       THEN /\ returned' = [all_candidates |-> <<>>, itinerary |-> <<>>,
                            total_cost |-> 0,
                            achieved_points |-> args.current_lp_balance]
            /\ UNCHANGED all_hotel_options_global
       ELSE LET r == FinalRun(all_hotel_options_global)
                after == PoolAfterRun(args.optimization_strategy,
                                      all_hotel_options_global,
                                      args.current_lp_balance, r.itinerary)
            IN  /\ all_hotel_options_global' = after
                /\ returned' = [all_candidates |-> after,
                                itinerary |-> r.itinerary,
                                total_cost |-> r.total_cost,
                                achieved_points |-> r.achieved_points]
    /\ UNCHANGED <<selectVars, args,
                   hotel_options_this_pass, current_search_pass_start_date,
                   current_search_pass_end_date, current_iteration_pass,
                   running_total_lp_achieved, city_idx,
                   actual_location_name_used_for_city, future_to_date,
                   completed_dates_for_city, searched_windows, fetch_results,
                   progress_calls>>

Next ==
    \/ BeginPass
    \/ SkipCity
    \/ SubmitFetches
    \/ FutureCompleted
    \/ EndPass
    \/ FinalOptimization

Spec == Init /\ [][Next]_vars

(***************************************************************************)
(* Properties of the selection strategies (checked under SelectSpec)       *)
(***************************************************************************)
Called == ret # NoCall

NonOverlapStrategies ==
    {"points_per_dollar", "minimize_cost_for_target_lp", "dp_minimize_cost"}

\* the stays of the pool a strategy may pick on the same night as another
SameNightCandidates ==
    {i \in DOMAIN all_stays :
        /\ all_stays[i].api_points_earned > 0
        /\ all_stays[i].total_price > 0
        /\ \E j \in DOMAIN all_stays :
              /\ j # i
              /\ all_stays[j].api_points_earned > 0
              /\ all_stays[j].total_price > 0
              /\ all_stays[j].check_in_date = all_stays[i].check_in_date}

\* the number of itinerary entries on the night of entry i
EntriesOnNightOf(itinerary, i) ==
    Cardinality({j \in DOMAIN itinerary :
                    itinerary[j].check_in_date = itinerary[i].check_in_date})

\* C1: in every strategy the returned achieved_points is the absolute balance:
\* current_lp_balance plus the points_earned_final of the itinerary's entries.
C1_AchievedIsAbsoluteBalance ==
    Called =>
        ret.achieved_points =
            current_lp_balance
              + SumSeq(ret.itinerary, "points_earned_final_for_itinerary")

\* C2: the itineraries of points-per-dollar, cheapest-first and DP hold no two
\* entries with the same check_in_date.
C2_DateExclusivity ==
    (Called /\ ret.strategy \in NonOverlapStrategies) =>
        \A i, j \in DOMAIN ret.itinerary :
            i # j => ret.itinerary[i].check_in_date # ret.itinerary[j].check_in_date

\* a non-overlap strategy returned two or more stays from a pool that offers
\* two eligible stays on one night
C2_Witness ==
    /\ Called
    /\ ret.strategy \in NonOverlapStrategies
    /\ Len(ret.itinerary) >= 2
    /\ SameNightCandidates # {}

\* C3 as stated: with any max_overlaps that is not None, no night of the
\* fastest-calendar-time itinerary holds more than max_overlaps entries.
C3_OverlapBoundAnyCap ==
    (Called /\ ret.strategy = "fastest_calendar_time_lp" /\ ret.max_overlaps # None) =>
        \A i \in DOMAIN ret.itinerary :
            EntriesOnNightOf(ret.itinerary, i) <= ret.max_overlaps[1]

\* C3 amended: with a max_overlaps that is not None and is positive, no night
\* of the fastest-calendar-time itinerary holds more than max_overlaps entries.
C3_OverlapBoundPositiveCap ==
    (/\ Called
     /\ ret.strategy = "fastest_calendar_time_lp"
     /\ ret.max_overlaps # None
     /\ ret.max_overlaps[1] > 0) =>
        \A i \in DOMAIN ret.itinerary :
            EntriesOnNightOf(ret.itinerary, i) <= ret.max_overlaps[1]

\* fastest-calendar-time with a cap of 1 returned two or more stays although
\* the pool offers two candidates on one night
C3_Witness ==
    /\ Called
    /\ ret.strategy = "fastest_calendar_time_lp"
    /\ ret.max_overlaps = Some(1)
    /\ Len(ret.itinerary) >= 2
    /\ SameNightCandidates # {}

\* what cheapest-first returns for the inputs of the call
CheapestOnSameInputs ==
    select_cheapest_stays_for_target_lp(all_stays, target_points, current_lp_balance)

\* C5 as stated: for every pool, target and balance DP costs no more than
\* cheapest-first.
C5_DpNeverCostsMore ==
    (Called /\ ret.strategy = "dp_minimize_cost") =>
        ret.total_cost <= CheapestOnSameInputs.total_cost

\* stay e has the most points_earned of the priced, point-earning stays of
\* its night, and the lowest price among those with as many
BestOfItsNight(e) ==
    \A i \in DOMAIN all_stays :
        (/\ all_stays[i].points_earned > 0
         /\ all_stays[i].total_price > 0
         /\ all_stays[i].check_in_date = e.check_in_date) =>
            \/ all_stays[i].points_earned < e.points_earned
            \/ /\ all_stays[i].points_earned = e.points_earned
               /\ all_stays[i].total_price >= e.total_price

\* cheapest-first reached the target on pre-bonus points with stays that are
\* each the best of their night
CheapestReachesPreBonus ==
    /\ \A i \in DOMAIN CheapestOnSameInputs.itinerary :
          BestOfItsNight(CheapestOnSameInputs.itinerary[i])
    /\ SumSeq(CheapestOnSameInputs.itinerary, "points_earned")
          >= target_points - current_lp_balance

\* C5 amended: DP costs no more than cheapest-first whenever the stays
\* cheapest-first selected are each the best of their night (most
\* points_earned, lowest price on ties) and their pre-bonus points_earned sum
\* to at least target - current_balance.
C5_DpNoCostlierOnPreBonusWeights ==
    (Called /\ ret.strategy = "dp_minimize_cost" /\ CheapestReachesPreBonus) =>
        ret.total_cost <= CheapestOnSameInputs.total_cost

\* DP is strictly cheaper than a cheapest-first itinerary that reaches the
\* target on pre-bonus points
C5_Witness ==
    /\ Called
    /\ ret.strategy = "dp_minimize_cost"
    /\ CheapestReachesPreBonus
    /\ CheapestOnSameInputs.itinerary # <<>>
    /\ ret.itinerary # <<>>
    /\ ret.total_cost < CheapestOnSameInputs.total_cost

\* the per-date-reduced candidates of the call's pool
ReducedCandidates == BestInitialStayPerDate(all_stays, <<>>)

\* the sets of reduced candidates whose pre-bonus points reach the relative
\* target, whatever their sum
ReachingSubsets ==
    {S \in SUBSET DOMAIN ReducedCandidates :
        SumSeq(SelectSeq(ReducedCandidates,
                   LAMBDA c : \E i \in S : ReducedCandidates[i] = c),
               "points_earned") >= target_points - current_lp_balance}

PriceOfSubset(S) ==
    SumSeq(SelectSeq(ReducedCandidates, LAMBDA c : \E i \in S : ReducedCandidates[i] = c),
           "total_price")

\* C6: when some set of reduced candidates reaches relative_target > 0 on
\* pre-bonus points, DP's total_cost is the least total price of such a set.
C6_DpReadOutExact ==
    (/\ Called
     /\ ret.strategy = "dp_minimize_cost"
     /\ target_points - current_lp_balance > 0
     /\ ReachingSubsets # {}) =>
        ret.total_cost = MinOf({PriceOfSubset(S) : S \in ReachingSubsets})

\* the $100/50000, $80/40000, $60/30000 pool with target 90000 and balance 0:
\* DP returns the $180 pair, not the three stays
C6_Witness ==
    /\ Called
    /\ ret.strategy = "dp_minimize_cost"
    /\ target_points = 90000
    /\ current_lp_balance = 0
    /\ Len(all_stays) = 3
    /\ {<<all_stays[i].total_price, all_stays[i].points_earned>> : i \in DOMAIN all_stays}
          = {<<100, 50000>>, <<80, 40000>>, <<60, 30000>>}
    /\ Cardinality({all_stays[i].check_in_date : i \in DOMAIN all_stays}) = 3
    /\ ret.total_cost = 180
    /\ Len(ret.itinerary) = 2

\* the eligible stays of the pool, as fastest-calendar-time counts them: base
\* points positive, bonus of the starting balance
EligibleAtStart ==
    {ApplyStatusBonusAndRecalculate(all_stays[i], current_lp_balance) :
        i \in {k \in DOMAIN all_stays : all_stays[k].api_points_earned > 0}}

\* the points of a set of stays
RECURSIVE PointsOfSet(_)
PointsOfSet(S) ==
    IF S = {} THEN 0
    ELSE LET e == CHOOSE x \in S : TRUE
         IN  e.points_earned_final_for_itinerary + PointsOfSet(S \ {e})

\* some selection of eligible stays checked in before deadline, at most
\* max_overlaps on a night, reaches the relative target
FeasibleBy(deadline, max_overlaps) ==
    \E S \in SUBSET EligibleAtStart :
        /\ \A e \in S : Strptime(e.check_in_date) < deadline
        /\ max_overlaps # None =>
              \A e \in S :
                  Cardinality({f \in S : f.check_in_date = e.check_in_date})
                      <= max_overlaps[1]
        /\ PointsOfSet(S) >= target_points - current_lp_balance

CheckoutDates == {Strptime(e.check_in_date) + 1 : e \in EligibleAtStart}

LatestCheckout(itinerary) ==
    MaxOf({Strptime(itinerary[i].check_in_date) + 1 : i \in DOMAIN itinerary})

\* C7: fastest-calendar-time returns the earliest feasible completion date: no
\* candidate check-out date before the itinerary's latest check-out is
\* feasible, and an empty itinerary with target > balance means no candidate
\* check-out date is feasible.
C7_EarliestFeasibleDate ==
    (Called /\ ret.strategy = "fastest_calendar_time_lp") =>
        /\ ret.itinerary # <<>> =>
              \A d \in CheckoutDates :
                  d < LatestCheckout(ret.itinerary) => ~FeasibleBy(d, ret.max_overlaps)
        /\ (ret.itinerary = <<>> /\ target_points > current_lp_balance) =>
              \A d \in CheckoutDates : ~FeasibleBy(d, ret.max_overlaps)

\* fastest-calendar-time under a cap passed over an infeasible earlier
\* check-out date and completed on a later one
C7_Witness ==
    /\ Called
    /\ ret.strategy = "fastest_calendar_time_lp"
    /\ ret.max_overlaps = Some(1)
    /\ ret.itinerary # <<>>
    /\ \E d \in CheckoutDates : d < LatestCheckout(ret.itinerary)
    /\ SameNightCandidates # {}

\* C8: every strategy returns ([], 0.0, current_balance) for an empty pool.
C8_EmptyPoolReturnsBalance ==
    (Called /\ all_stays = <<>>) =>
        /\ ret.itinerary = <<>>
        /\ ret.total_cost = 0
        /\ ret.achieved_points = current_lp_balance


(***************************************************************************)
(* Properties of find_best_hotel_deals (checked under Spec)                *)
(***************************************************************************)
\* current_balance plus the points of the stays the selected strategy picks
\* from pool, with the caller's target and balance
StrategyReaches(pool) ==
    LET r == RunStrategy(args.optimization_strategy, pool,
                         args.target_loyalty_points, args.current_lp_balance,
                         args.max_overlaps)
    IN  args.current_lp_balance
          + SumSeq(r.itinerary, "points_earned_final_for_itinerary")

\* C4: in iterative mode, when at the end of a pass the selected strategy on
\* the global pool reaches the target (current_balance plus the points of the
\* selected stays >= target_points), the orchestrator stops: it goes to the
\* final run and opens no further date window.
C4_StopsWhenTargetReached ==
    [][(/\ pc = "city"
        /\ pc' \in {"pass", "final"}
        /\ args.iterative_search_for_lp_target
        /\ StrategyReaches(all_hotel_options_global') >= args.target_loyalty_points)
       => (/\ pc' = "final"
           /\ current_search_pass_start_date' = current_search_pass_start_date
           /\ current_search_pass_end_date' = current_search_pass_end_date)]_vars

PoolKeys(pool) == {HotelKey(pool[i]) : i \in DOMAIN pool}

\* the states between the merge of a pass and the start of the next one
PassMerged == pc \in {"pass", "final", "done"}

\* C9: the global pool never holds two entries with the same (name, location,
\* check_in_date, total_price); after every pass each key of the pass is in
\* the pool, and merging the stays of the pass again, whose keys are then all
\* present, leaves the pool as it is, duplicates inside the pass included.
C9_DedupIdempotent ==
    /\ Cardinality(PoolKeys(all_hotel_options_global)) = Len(all_hotel_options_global)
    /\ PassMerged =>
          /\ PoolKeys(hotel_options_this_pass) \subseteq PoolKeys(all_hotel_options_global)
          /\ MergeNewOptions(all_hotel_options_global, hotel_options_this_pass)
                = all_hotel_options_global

\* a second or later pass whose stays hold the same key twice was merged into
\* a pool that held stays of an earlier pass
C9_Witness ==
    /\ PassMerged
    /\ current_iteration_pass >= 2
    /\ \E i, j \in DOMAIN hotel_options_this_pass :
          /\ i # j
          /\ HotelKey(hotel_options_this_pass[i]) = HotelKey(hotel_options_this_pass[j])
    /\ Cardinality(PoolKeys(all_hotel_options_global))
          > Cardinality(PoolKeys(hotel_options_this_pass))

\* the variant of the search loop, compared position by position: whether
\* the loop and the final run are still ahead, the passes left, the cities
\* and submissions left in the pass, the fetches still to complete
Variant ==
    <<IF pc = "done" THEN 0 ELSE IF pc = "final" THEN 1 ELSE 2,
      14 - current_iteration_pass,
      IF pc = "city" THEN 2 * (Len(args.city_queries) - city_idx) + 1
      ELSE IF pc = "fetching" THEN 2 * (Len(args.city_queries) - city_idx)
      ELSE 0,
      Cardinality(future_to_date)>>

LexLess(a, b) ==
    \E k \in 1..4 : a[k] < b[k] /\ \A j \in 1..(k - 1) : a[j] = b[j]

\* the loop is not stuck: inside a pass a city is left to search or the pass
\* can end, and while the fetches of a city run one of them can complete
NotStuck ==
    /\ pc = "city" => city_idx <= Len(args.city_queries)
    /\ pc = "fetching" => CanCompleteNext # {}

\* C10: find_best_hotel_deals terminates when every fetch returns: it never
\* searches more than 12 date windows, it is never stuck before it returns,
\* and every step it takes strictly decreases a variant of four natural
\* numbers, so it reaches the final strategy run and returns.
C10_TerminatesWithinPassCap ==
    /\ [](/\ Len(searched_windows) <= 12
          /\ \A k \in 1..4 : Variant[k] \in Nat
          /\ NotStuck)
    /\ [][LexLess(Variant', Variant)]_vars

\* an iterative search returned after the cap stopped its 13th pass
C10_Witness ==
    /\ pc = "done"
    /\ args.iterative_search_for_lp_target
    /\ Len(searched_windows) = 12
    /\ current_iteration_pass = 13


\* the window find_best_hotel_deals was called with
InitialWindow == <<args.start_date, args.end_date>>

\* C11: when iterative mode is disabled the loop body runs once, the window
\* stays [start_date, end_date], and the windows searched are that window
\* alone (searched once when it holds a date, not at all when it is empty),
\* whether or not the target was reached.
C11_SinglePassWhenNotIterative ==
    (pc # "idle" /\ ~args.iterative_search_for_lp_target) =>
        /\ current_iteration_pass <= 1
        /\ current_search_pass_start_date = args.start_date
        /\ current_search_pass_end_date = args.end_date
        /\ \A i \in DOMAIN searched_windows : searched_windows[i] = InitialWindow
        /\ Len(searched_windows) <= 1
        /\ pc \in {"final", "done"} =>
              /\ current_iteration_pass = 1
              /\ Len(searched_windows) =
                    IF args.start_date <= args.end_date THEN 1 ELSE 0

\* a search without iterative mode returned after its one pass with stays in
\* the pool and the target not reached
C11_Witness ==
    /\ pc = "done"
    /\ ~args.iterative_search_for_lp_target
    /\ searched_windows = <<InitialWindow>>
    /\ all_hotel_options_global # <<>>
    /\ StrategyReaches(all_hotel_options_global) < args.target_loyalty_points


IsPrefix(a, b) == Len(a) <= Len(b) /\ \A i \in DOMAIN a : a[i] = b[i]

\* the dates of the current window
WindowDates ==
    generate_date_range(current_search_pass_start_date, current_search_pass_end_date)

\* C12: whatever place lookups and fetches fail, the pass goes on: a city's
\* fetching ends only when every date of the window has completed, the pass
\* ends only after the last city, the stays a pass has collected are kept
\* through later failures, the pool only grows, and after the pass every stay
\* collected is in the global pool.
C12_GracefulDegradation ==
    /\ [](PassMerged =>
            PoolKeys(hotel_options_this_pass) \subseteq PoolKeys(all_hotel_options_global))
    /\ [][/\ pc # "pass" => IsPrefix(hotel_options_this_pass, hotel_options_this_pass')
          /\ IsPrefix(all_hotel_options_global, all_hotel_options_global')
          /\ (pc = "fetching" /\ pc' # "fetching") =>
                /\ pc' = "city"
                /\ completed_dates_for_city' = Cardinality(WindowDates)
                /\ future_to_date' = {}
                /\ city_idx' = city_idx + 1
          /\ (pc = "city" /\ pc' \in {"pass", "final"}) =>
                city_idx = Len(args.city_queries)]_vars

\* the stays of location and night k among the stays a pass collected
CollectedFor(location_name, k) ==
    {i \in DOMAIN hotel_options_this_pass :
        /\ hotel_options_this_pass[i].location = location_name
        /\ hotel_options_this_pass[i].check_in_date = Night(k)}

\* a pass over two cities and the first two nights was merged with nothing
\* from the first city (its lookup or its fetches failed) and, from the second
\* city, nothing for the first night but the stays of the second night
C12_Witness ==
    /\ PassMerged
    /\ args.city_queries = <<"phoenix", "tempe">>
    /\ searched_windows = <<<<FirstNight, FirstNight + 1>>>>
    /\ CollectedFor("Phoenix", 1) = {} /\ CollectedFor("Phoenix", 2) = {}
    /\ CollectedFor("Tempe", 1) = {}
    /\ CollectedFor("Tempe", 2) # {}
    /\ Len(all_hotel_options_global) = Cardinality(CollectedFor("Tempe", 2))


(***************************************************************************)
(* Further properties of the selection strategies (checked under           *)
(* SelectSpec)                                                             *)
(***************************************************************************)
RECURSIVE BalanceAfter(_, _)
\* the balance after the stays of seq are taken in this order from balance,
\* each with the status bonus of the balance before it
BalanceAfter(seq, balance) ==
    IF seq = <<>> THEN balance
    ELSE BalanceAfter(Tail(seq),
             balance + ApplyStatusBonusAndRecalculate(Head(seq), balance)
                           .points_earned_final_for_itinerary)

PoolStays == {all_stays[i] : i \in DOMAIN all_stays}

\* no combination of the pool's stays, taken in any order, reaches the target
TargetInfeasible ==
    \A seq \in Pools(PoolStays) :
        BalanceAfter(seq, current_lp_balance) < target_points

GreedyStrategies == {"points_per_dollar", "minimize_cost_for_target_lp"}

\* the stays a greedy strategy takes as candidates
GreedyCandidates ==
    {i \in DOMAIN all_stays :
        /\ all_stays[i].api_points_earned > 0
        /\ ret.strategy = "minimize_cost_for_target_lp" => all_stays[i].total_price > 0}

\* C13: when no combination of the pool's stays reaches the target, every
\* strategy returns a value with achieved_points < target_points, and a
\* greedy strategy returns the partial itinerary it accumulated: one stay for
\* every night that has a candidate.
C13_InfeasibleTargetIsAValue ==
    (Called /\ TargetInfeasible) =>
        /\ ret.achieved_points < target_points
        /\ ret.strategy \in GreedyStrategies =>
              {ret.itinerary[i].check_in_date : i \in DOMAIN ret.itinerary}
                  = {all_stays[i].check_in_date : i \in GreedyCandidates}

\* a greedy strategy returned a non-empty partial itinerary for a target the
\* pool cannot reach
C13_Witness ==
    /\ Called
    /\ TargetInfeasible
    /\ ret.strategy \in GreedyStrategies
    /\ Len(ret.itinerary) >= 2
    /\ current_lp_balance
          + SumSeq(ret.itinerary, "points_earned_final_for_itinerary") < target_points


\* the calendar order of two "MM/DD/YYYY" dates: by year, month, day
DateLeq(a, b) ==
    \/ a[3] < b[3]
    \/ a[3] = b[3] /\ a[1] < b[1]
    \/ a[3] = b[3] /\ a[1] = b[1] /\ a[2] <= b[2]

\* C16: in every strategy the entries of the returned itinerary are in
\* non-decreasing order of check_in_date, compared as calendar dates.
C16_ItineraryChronological ==
    Called =>
        \A i, j \in DOMAIN ret.itinerary :
            i < j => DateLeq(ret.itinerary[i].check_in_date,
                             ret.itinerary[j].check_in_date)

\* an itinerary holds a December 2025 night before a January 2026 night, the
\* order opposite to that of the strings, from a pool that held the January
\* stay first
C16_Witness ==
    /\ Called
    /\ \E i, j \in DOMAIN ret.itinerary :
          /\ i < j
          /\ ret.itinerary[i].check_in_date[3] = 2025
          /\ ret.itinerary[j].check_in_date[3] = 2026
    /\ all_stays[1].check_in_date[3] = 2026

(***************************************************************************)
(* Further properties of find_best_hotel_deals                             *)
(***************************************************************************)
\* the stay as analyze_hotel_data builds it from the fetched offer
AsFetched(h) ==
    MakeStay(h.name, h.location, h.check_in_date, h.total_price,
             h.api_points_earned, args.aa_card_bonus, args.aa_card_miles_rate)

\* C19: the strategies never change the pool: through every run of a
\* strategy (the convergence check of each pass and the final run) every
\* entry of the global pool stays as it was fetched, with
\* status_bonus_points = 0 and its pre-bonus points and miles, and the pool
\* returned is that pool, while the itinerary holds post-bonus copies.
C19_PoolNeverMutated ==
    /\ [](/\ \A i \in DOMAIN all_hotel_options_global :
                /\ all_hotel_options_global[i].status_bonus_points = 0
                /\ all_hotel_options_global[i]
                       = AsFetched(all_hotel_options_global[i])
          /\ pc = "done" => returned.all_candidates = all_hotel_options_global)
    /\ [][IsPrefix(all_hotel_options_global, all_hotel_options_global')]_vars

\* the search is over after two passes, each with a run of the strategy on a
\* pool that was not empty, and the itinerary holds a stay with a status
\* bonus whose entry in the pool has none
C19_Witness ==
    /\ pc = "done"
    /\ current_iteration_pass >= 2
    /\ \E i \in DOMAIN returned.all_candidates, j \in DOMAIN returned.itinerary :
          /\ HotelKey(returned.all_candidates[i]) = HotelKey(returned.itinerary[j])
          /\ returned.itinerary[j].status_bonus_points > 0
          /\ returned.all_candidates[i].status_bonus_points = 0
          /\ returned.itinerary[j].points_earned_final_for_itinerary
                 > returned.all_candidates[i].points_earned_final_for_itinerary

\* C21: in iterative mode every pass after the first searches a window that
\* starts on the day after the previous window's end, so that no date lies in
\* the windows of two passes, spans at most 30 consecutive dates and ends no
\* later than the horizon start_date + max_search_days.
C21_WindowsAdvance ==
    (args # NoCall /\ args.iterative_search_for_lp_target) =>
        /\ \A i \in 2..Len(searched_windows) :
              /\ searched_windows[i][1] = searched_windows[i - 1][2] + 1
              /\ searched_windows[i][1] <= searched_windows[i][2]
              /\ searched_windows[i][2] - searched_windows[i][1] + 1 <= 30
              /\ searched_windows[i][2]
                     <= args.start_date + args.max_search_days_iterative
        /\ \A i, j \in DOMAIN searched_windows :
              i < j =>
                  generate_date_range(searched_windows[i][1], searched_windows[i][2])
                      \cap generate_date_range(searched_windows[j][1],
                                               searched_windows[j][2]) = {}

\* a third pass has searched a full window of 30 dates
C21_Witness ==
    /\ args.iterative_search_for_lp_target
    /\ Len(searched_windows) >= 3
    /\ searched_windows[3][2] - searched_windows[3][1] + 1 = 30
    /\ searched_windows[3][1] = searched_windows[2][2] + 1

\* the result of the selected strategy on a pool, with the caller's target
\* and balance
OneRunOn(pool) ==
    IF args.optimization_strategy = "minimize_cost_for_target_lp"
    THEN select_cheapest_stays_for_target_lp(pool, args.target_loyalty_points,
                                             args.current_lp_balance)
    ELSE IF args.optimization_strategy = "dp_minimize_cost"
    THEN select_optimal_stays_dp(pool, args.target_loyalty_points,
                                 args.current_lp_balance)
    ELSE IF args.optimization_strategy = "fastest_calendar_time_lp"
    THEN select_fastest_calendar_time_lp(pool, args.target_loyalty_points,
                                         args.current_lp_balance, args.max_overlaps)
    ELSE select_optimal_stays_ppd(pool, args.target_loyalty_points,
                                  args.current_lp_balance)

\* C22: whatever ends the loop, find_best_hotel_deals returns the itinerary,
\* total_cost and achieved_points of one run of the selected strategy on the
\* whole global pool with the caller's target and balance, and that pool as
\* all_candidates; with an empty pool it returns ([], [], 0.0, current_balance).
C22_FinalResultIsOneRunOnPool ==
    pc = "done" =>
        /\ returned.all_candidates = all_hotel_options_global
        /\ IF all_hotel_options_global = <<>>
           THEN /\ returned.itinerary = <<>>
                /\ returned.total_cost = 0
                /\ returned.achieved_points = args.current_lp_balance
           ELSE /\ returned.itinerary = OneRunOn(all_hotel_options_global).itinerary
                /\ returned.total_cost = OneRunOn(all_hotel_options_global).total_cost
                /\ returned.achieved_points
                       = OneRunOn(all_hotel_options_global).achieved_points

\* a search with a balance of 60000 that ended after a second pass, with
\* stays of both passes in the pool and a stay in the itinerary
C22_Witness ==
    /\ pc = "done"
    /\ args.current_lp_balance = 60000
    /\ Len(searched_windows) = 2
    /\ \E i, j \in DOMAIN all_hotel_options_global :
          /\ Strptime(all_hotel_options_global[i].check_in_date)
                 <= searched_windows[1][2]
          /\ Strptime(all_hotel_options_global[j].check_in_date)
                 >= searched_windows[2][1]
    /\ returned.itinerary # <<>>

\* how often a stay occurs in a list
CountIn(x, seq) == Cardinality({i \in DOMAIN seq : seq[i] = x})

RECURSIVE CountInResults(_, _)
\* how often a stay occurs in what the fetches with keys ks returned
CountInResults(x, ks) ==
    IF ks = {} THEN 0
    ELSE LET k == CHOOSE k \in ks : TRUE
         IN  CountIn(x, fetch_results[k]) + CountInResults(x, ks \ {k})

\* the dates of the pass for which a fetch of city c has completed
CompletedDatesOf(c) == {key[2] : key \in {q \in DOMAIN fetch_results : q[1] = c}}

\* C27: whatever the order in which the fetches of a pass and location
\* complete, the interim pool of the pass holds exactly the stays the
\* completed fetches returned, each once; when the last fetch of the location
\* has completed that is every date of the window, and a fetch that raised
\* takes nothing of its siblings away.
C27_InterimPoolIsUnionOfResults ==
    pc \in {"city", "fetching"} =>
        /\ \A x \in {hotel_options_this_pass[i] : i \in DOMAIN hotel_options_this_pass}
                    \cup UNION {{fetch_results[key][i] : i \in DOMAIN fetch_results[key]} :
                                   key \in DOMAIN fetch_results} :
              CountIn(x, hotel_options_this_pass)
                  = CountInResults(x, DOMAIN fetch_results)
        /\ \A c \in 1..Len(args.city_queries) :
              IF pc = "fetching" /\ c = city_idx + 1
              THEN CompletedDatesOf(c) = WindowDates \ future_to_date
              ELSE CompletedDatesOf(c) \in {{}, WindowDates}
        /\ \A c \in (city_idx + 2)..Len(args.city_queries) : CompletedDatesOf(c) = {}

\* both cities are done; a fetch of a night with offers returned nothing or
\* raised, and in one city the later night completed before the earlier one
C27_Witness ==
    /\ pc = "city"
    /\ city_idx = 2
    /\ \E key \in DOMAIN fetch_results :
          /\ fetch_results[key] = <<>>
          /\ OffersOn(key[2], "Phoenix", FALSE, 1) # <<>>
    /\ \E i, j \in DOMAIN hotel_options_this_pass :
          /\ i < j
          /\ hotel_options_this_pass[i].location = hotel_options_this_pass[j].location
          /\ Strptime(hotel_options_this_pass[i].check_in_date)
                 > Strptime(hotel_options_this_pass[j].check_in_date)
          /\ \A m \in i..j :
                hotel_options_this_pass[m].location = hotel_options_this_pass[i].location

\* the calls of progress_callback for city c in the pass, in order
ProgressCallsOf(c) == SelectSeq(progress_calls, LAMBDA call : call.city = c)

\* C28: for a location whose place id was found, progress_callback is called
\* once after each completed fetch, failed or not, with the counts 1, 2, ...
\* up to the number of dates of the window; for a location whose lookup
\* failed it is called once with the counts (0, 0) and no fetch is issued.
C28_ProgressPerCompletedFetch ==
    pc \in {"city", "fetching"} =>
        \A c \in 1..Len(args.city_queries) :
            IF CompletedDatesOf(c) # {} \/ (pc = "fetching" /\ c = city_idx + 1)
            THEN /\ ProgressCallsOf(c) =
                        [n \in 1..Cardinality(CompletedDatesOf(c)) |->
                            ProgressCall(n, Cardinality(WindowDates),
                                         current_iteration_pass, c)]
                 /\ (c <= city_idx) =>
                        Len(ProgressCallsOf(c)) = Cardinality(WindowDates)
            ELSE IF c <= city_idx
            THEN ProgressCallsOf(c)
                     = <<ProgressCall(0, 0, current_iteration_pass, c)>>
            ELSE ProgressCallsOf(c) = <<>>

\* in one pass the lookup of the first city failed and every fetch of the
\* second city completed, one of them without stays for a night with offers
C28_Witness ==
    /\ pc = "city"
    /\ city_idx = 2
    /\ CompletedDatesOf(1) = {}
    /\ CompletedDatesOf(2) = WindowDates
    /\ Cardinality(WindowDates) = 2
    /\ Len(progress_calls) = 3
    /\ \E d \in WindowDates :
          /\ fetch_results[<<2, d>>] = <<>>
          /\ OffersOn(d, "Phoenix", FALSE, 1) # <<>>

\* C30: when current_balance >= target_points every strategy returns an
\* empty itinerary with total_cost 0.0, whatever the pool.
C30_NothingBookedWhenTargetMet ==
    (Called /\ current_lp_balance >= target_points) =>
        /\ ret.itinerary = <<>>
        /\ ret.total_cost = 0

\* a strategy has run on three stays with a price and points, with a target
\* above 0 that the balance already meets
C30_Witness ==
    /\ Called
    /\ target_points > 0
    /\ current_lp_balance >= target_points
    /\ Len(all_stays) = 3
    /\ \A i \in DOMAIN all_stays :
          all_stays[i].api_points_earned > 0 /\ all_stays[i].total_price > 0
    /\ ret.itinerary = <<>>

(***************************************************************************)
(* Calls of the selection strategies on stays whose prices do not add up   *)
(* exactly in floats                                                       *)
(***************************************************************************)
\* <<hotel name, night, total price, api points>>: the sum of two of the
\* larger prices needs a fourth digit
RoundingOffers ==
    << <<"Ace",  1, 996, 3000>>,
       <<"Best", 2, 995, 1000>>,
       <<"Cozy", 3, 101,  400>>,
       <<"Dune", 2, 104,  500>> >>

RoundingCatalogue ==
    {MakeStay(RoundingOffers[k][1], SelectLocation, Night(RoundingOffers[k][2]),
              RoundingOffers[k][3], RoundingOffers[k][4], FALSE, 1) :
        k \in DOMAIN RoundingOffers}

RoundingInit ==
    /\ SearchIdle
    /\ all_stays \in Pools(RoundingCatalogue)
    /\ target_points \in Targets
    /\ current_lp_balance \in Balances
    /\ ret = NoCall

RoundingSpec == RoundingInit /\ [][SelectNext]_vars

\* C17: in every strategy the returned total_cost equals
\* sum(entry.total_price for entry in itinerary), the sum of the prices of the
\* itinerary's entries taken in the itinerary's order.
C17_TotalCostIsSumOfPrices ==
    Called => ret.total_cost = FloatSum(ret.itinerary, "total_price")

(***************************************************************************)
(* Calls of the selection strategies with the card bonus on and targets    *)
(* within reach of the card bonus of one stay                              *)
(***************************************************************************)
CardTargets == {50, 10100, 40100}

CardBonusInit ==
    /\ SearchIdle
    /\ \E aa_card_miles_rate \in CardMilesRates :
          all_stays \in Pools(Catalogue(TRUE, aa_card_miles_rate))
    /\ target_points \in CardTargets
    /\ current_lp_balance \in Balances
    /\ ret = NoCall

CardBonusSpec == CardBonusInit /\ [][SelectNext]_vars

\* C18: no entry of a returned itinerary has api_points_earned <= 0, also
\* when the card bonus makes points_earned positive although
\* api_points_earned is 0.
C18_NoZeroYieldEntry ==
    Called =>
        \A i \in DOMAIN ret.itinerary : ret.itinerary[i].api_points_earned > 0

(***************************************************************************)
(* Calls of the selection strategies on stays of equal price and points    *)
(* on different nights, with a balance just below the first threshold      *)
(***************************************************************************)
\* <<hotel name, night, total price, api points>>
TiedOffers ==
    << <<"Ace",  1,  50, 1000>>,
       <<"Best", 2, 100, 3000>>,
       <<"Cozy", 3,  50, 1000>>,
       <<"Dune", 2,  60, 2000>> >>

TiedCatalogue ==
    {MakeStay(TiedOffers[k][1], SelectLocation, Night(TiedOffers[k][2]),
              TiedOffers[k][3], TiedOffers[k][4], FALSE, 1) :
        k \in DOMAIN TiedOffers}

TiedTargets == {61000, 63000}

TiedBalances == {0, 59000}

TiedInit ==
    /\ SearchIdle
    /\ all_stays \in Pools(TiedCatalogue)
    /\ target_points \in TiedTargets
    /\ current_lp_balance \in TiedBalances
    /\ ret = NoCall

TiedSpec == TiedInit /\ [][SelectNext]_vars

\* the orders in which the stays of a pool can have been inserted
Reorderings(pool) ==
    {[i \in DOMAIN pool |-> pool[f[i]]] :
        f \in {g \in [DOMAIN pool -> DOMAIN pool] :
                  \A i, j \in DOMAIN pool : i # j => g[i] # g[j]}}

\* C20: a strategy returns the same total_cost and the same achieved_points
\* on every reordering of the pool, with the same target and balance.
C20_InsertionOrderIndependent ==
    Called =>
        \A q \in Reorderings(all_stays) :
            LET r == RunStrategy(ret.strategy, q, target_points,
                                 current_lp_balance, ret.max_overlaps)
            IN  /\ r.total_cost = ret.total_cost
                /\ r.achieved_points = ret.achieved_points

\* the stays of the pool with a positive price and positive points
EligiblePool ==
    SelectSeq(all_stays, LAMBDA s : s.points_earned > 0 /\ s.total_price > 0)

\* the sets of eligible stays with at most one stay per check-in date whose
\* pre-bonus points reach target - current_balance
ReachingOnePerDate ==
    {S \in SUBSET DOMAIN EligiblePool :
        /\ \A i, j \in S :
              i # j => EligiblePool[i].check_in_date # EligiblePool[j].check_in_date
        /\ SumSeq(SelectSeq(EligiblePool,
                      LAMBDA c : \E i \in S : EligiblePool[i] = c),
                  "points_earned") >= target_points - current_lp_balance}

PriceOfEligible(S) ==
    SumSeq(SelectSeq(EligiblePool, LAMBDA c : \E i \in S : EligiblePool[i] = c),
           "total_price")

\* C23: keeping for each check-in date only the stay with the most points
\* (the cheaper one on a tie) loses nothing: the DP strategy's total_cost is
\* the least total price over all sets of eligible stays with at most one
\* stay per date whose pre-bonus points reach target - current_balance.
C23_DpPhaseOneLosesNothing ==
    (/\ Called
     /\ ret.strategy = "dp_minimize_cost"
     /\ target_points - current_lp_balance > 0
     /\ ReachingOnePerDate # {}) =>
        ret.total_cost = MinOf({PriceOfEligible(S) : S \in ReachingOnePerDate})

\* every entry of seq has the status bonus of the balance accumulated before
\* it: the starting balance plus points_earned_final of the entries before it
BonusChain(seq, balance) ==
    \A k \in DOMAIN seq :
        LET B == balance + SumSeq(SubSeq(seq, 1, k - 1),
                                  "points_earned_final_for_itinerary")
        IN  /\ seq[k].status_bonus_points
                   = PyRound(seq[k].api_points_earned * StatusBonusPercentage(B), 100)
            /\ seq[k].points_earned_final_for_itinerary
                   = seq[k].points_earned + seq[k].status_bonus_points

\* the orders of the entries of an itinerary
OrdersOf(itinerary) ==
    {f \in [DOMAIN itinerary -> DOMAIN itinerary] :
        \A i, j \in DOMAIN itinerary : i # j => f[i] # f[j]}

\* the selection order of a greedy strategy is an order of its sort key,
\* which status bonuses leave alone
KeyOrdered(strategy, seq) ==
    \A a, b \in DOMAIN seq :
        a < b =>
            IF strategy = "points_per_dollar"
            THEN ~PpdKeyBefore(seq[b], seq[a])
            ELSE IF strategy = "fastest_calendar_time_lp"
            THEN ~FastestKeyBefore(seq[b], seq[a])
            ELSE ~CheapestKeyBefore(seq[b], seq[a])

\* C24: in the points-per-dollar, cheapest-first and DP strategies each
\* entry's status_bonus_points is round(api_points_earned * percentage(B)),
\* B being the balance plus points_earned_final of the entries accepted
\* before it, in selection order for the greedy strategies and in date order
\* for DP; later stays do not change it.
C24_BonusFromBalanceBefore ==
    Called =>
        /\ ret.strategy = "dp_minimize_cost" =>
              BonusChain(ret.itinerary, current_lp_balance)
        /\ ret.strategy \in {"points_per_dollar", "minimize_cost_for_target_lp"} =>
              \E f \in OrdersOf(ret.itinerary) :
                  LET seq == [k \in DOMAIN ret.itinerary |-> ret.itinerary[f[k]]]
                  IN  /\ KeyOrdered(ret.strategy, seq)
                      /\ BonusChain(seq, current_lp_balance)

\* the points-per-dollar walk crossed 60000 on its way: the stay selected
\* last comes first by date and carries a bonus, the stay selected first does
\* not
C24_Witness ==
    /\ Called
    /\ ret.strategy = "points_per_dollar"
    /\ Len(ret.itinerary) >= 2
    /\ ret.itinerary[1].status_bonus_points > 0
    /\ ret.itinerary[Len(ret.itinerary)].status_bonus_points = 0
    /\ ret.itinerary[Len(ret.itinerary)].api_points_earned > 0

C26_NoStayAfterTargetMet ==
    (/\ Called
     /\ ret.strategy \in {"points_per_dollar", "minimize_cost_for_target_lp",
                          "fastest_calendar_time_lp"}
     /\ ret.itinerary # <<>>) =>
        \E f \in OrdersOf(ret.itinerary) :
            LET seq == [k \in DOMAIN ret.itinerary |-> ret.itinerary[f[k]]]
            IN  /\ KeyOrdered(ret.strategy, seq)
                /\ current_lp_balance
                     + SumSeq(SubSeq(seq, 1, Len(seq) - 1),
                              "points_earned_final_for_itinerary") < target_points

\* max_overlaps = 2 and two stays of one night, each enough for the target:
\* the fastest strategy returns exactly one entry
C26_Witness ==
    /\ Called
    /\ ret.strategy = "fastest_calendar_time_lp"
    /\ ret.max_overlaps = Some(2)
    /\ Len(ret.itinerary) = 1
    /\ \E i, j \in DOMAIN all_stays :
          /\ i # j
          /\ all_stays[i].check_in_date = all_stays[j].check_in_date
          /\ all_stays[i].check_in_date = ret.itinerary[1].check_in_date
          /\ current_lp_balance + all_stays[i].points_earned >= target_points
          /\ current_lp_balance + all_stays[j].points_earned >= target_points
          /\ current_lp_balance < target_points

(***************************************************************************)
(* Calls of the selection strategies on stays whose rewards are negative,  *)
(* with the card bonus on                                                  *)
(***************************************************************************)
\* <<hotel name, night, total price, api points>>
NegativeOffers ==
    << <<"Ace",  1, 200,  -100>>,
       <<"Best", 2,  80, 40000>>,
       <<"Cozy", 3,  60,   -50>>,
       <<"Dune", 1, 100,    50>> >>

NegativeCatalogue(aa_card_miles_rate) ==
    {MakeStay(NegativeOffers[k][1], SelectLocation, Night(NegativeOffers[k][2]),
              NegativeOffers[k][3], NegativeOffers[k][4], TRUE, aa_card_miles_rate) :
        k \in DOMAIN NegativeOffers}

NegativeTargets == {100, 60100, 100050}

NegativeInit ==
    /\ SearchIdle
    /\ \E aa_card_miles_rate \in CardMilesRates :
          all_stays \in Pools(NegativeCatalogue(aa_card_miles_rate))
    /\ target_points \in NegativeTargets
    /\ current_lp_balance \in Balances
    /\ ret = NoCall

NegativeSpec == NegativeInit /\ [][SelectNext]_vars

BonusBalances == {0, 59999, 60000, 60001, 99999, 100000, 100001}

BonusStays ==
    UNION {Catalogue(aa_card_bonus, aa_card_miles_rate) :
              aa_card_bonus \in BOOLEAN, aa_card_miles_rate \in CardMilesRates}

BonusInit ==
    /\ SearchIdle
    /\ all_stays \in {<<stay>> : stay \in BonusStays}
    /\ current_lp_balance \in BonusBalances
    /\ target_points = 0
    /\ ret = NoCall

CallApplyStatusBonus ==
    /\ ret = NoCall
    /\ ret' = [strategy |-> "_apply_status_bonus_and_recalculate",
               status_bonus_percentage |-> StatusBonusPercentage(current_lp_balance),
               current_stay |->
                   ApplyStatusBonusAndRecalculate(all_stays[1], current_lp_balance)]
    /\ UNCHANGED <<all_stays, target_points, current_lp_balance, searchVars>>

BonusNext == CallApplyStatusBonus

BonusSpec == BonusInit /\ [][BonusNext]_vars

(***************************************************************************)
(* Properties of the status bonus (checked under BonusSpec)                *)
(***************************************************************************)
\* the bracket of a balance: 0 below 60000, 1 in [60000, 100000), 2 from 100000
Bracket(b) == IF b < 60000 THEN 0 ELSE IF b < 100000 THEN 1 ELSE 2

\* C14: the percentage is 0 below 60000, 20 in [60000, 100000) and 30 from
\* 100000; and for balances b1 < b2 the percentage at b1 is at most the one
\* at b2, the two being equal only when b1 and b2 are in the same bracket.
C14_BonusBrackets ==
    Called =>
        /\ ret.status_bonus_percentage =
              IF current_lp_balance < 60000 THEN 0
              ELSE IF current_lp_balance < 100000 THEN 20 ELSE 30
        /\ \A b1 \in BonusBalances :
              b1 < current_lp_balance =>
                 /\ StatusBonusPercentage(b1) <= ret.status_bonus_percentage
                 /\ StatusBonusPercentage(b1) = ret.status_bonus_percentage
                       => Bracket(b1) = Bracket(current_lp_balance)

\* the percentage was computed at a threshold itself
C14_Witness ==
    /\ Called
    /\ current_lp_balance \in {60000, 100000}
    /\ ret.status_bonus_percentage > 0

\* C15: points_earned_final is points_earned plus status_bonus_points, and
\* status_bonus_points is api_points_earned times the percentage rounded to a
\* nearest integer: it does not count card_bonus_points. A stay with
\* api_points_earned 10000 and no card bonus gets 2000 at balance 60000 and a
\* points_earned_final of 12000.
C15_BonusOnBasePointsOnly ==
    Called =>
        LET stay == all_stays[1]
            after == ret.current_stay
            exact == stay.api_points_earned * ret.status_bonus_percentage
        IN  /\ after.points_earned_final_for_itinerary
                  = stay.points_earned + after.status_bonus_points
            /\ 100 * after.status_bonus_points - exact \in -50..50
            /\ after.points_earned = stay.api_points_earned + stay.card_bonus_points
            /\ (/\ stay.api_points_earned = 10000
                /\ stay.card_bonus_points = 0
                /\ current_lp_balance = 60000) =>
                   /\ after.status_bonus_points = 2000
                   /\ after.points_earned_final_for_itinerary = 12000

\* a stay with a card bonus got a status bonus at a balance of 60000 or more
C15_Witness ==
    /\ Called
    /\ all_stays[1].card_bonus_points > 0
    /\ all_stays[1].api_points_earned > 0
    /\ ret.current_stay.status_bonus_points > 0

=============================================================================
